---- MODULE Spec2Model ----
(***************************************************************************)
(* Word-window chunking and heading-based section assignment of the        *)
(* docling-arabic scripts (main.py, sample_pdf.py, generate_pdf.py,        *)
(* main_docling_arabic.py, main_simple_custom_sections.py), with their     *)
(* heading classifiers and section extractors.                             *)
(*                                                                         *)
(* Python strings are modelled as sequences of one-character strings, so   *)
(* that str.split, " ".join, slicing, the substring test and the           *)
(* formatting of a page number are computed character by character.        *)
(***************************************************************************)
EXTENDS Integers, Sequences, FiniteSets, TLC

VARIABLES variant, pages, chunk_size, overlap, chunks, sections,
          enriched, current_section, idx, pc,
          chunk_words, current_chunk, current_page,
          line, is_heading,
          paragraphs, current_text,
          tmp_file, response, attempts, method, result

vars == <<variant, pages, chunk_size, overlap, chunks, sections,
          enriched, current_section, idx, pc,
          chunk_words, current_chunk, current_page,
          line, is_heading,
          paragraphs, current_text,
          tmp_file, response, attempts, method, result>>

\* Locals of chunk_text_with_sections and _process_docx_file, the argument
\* and the result of a heading classifier, the paragraphs of a DOCX document,
\* and the state of an /ingest handler: the temporary file of the upload, the
\* response, the extraction stages tried so far with their outcomes, the
\* local `method` of sample_pdf.py and the conversion result of Docling.
accumulatorVars == <<chunk_words, current_chunk, current_page>>
classifierVars == <<line, is_heading>>
docxVars == <<paragraphs, current_text>>
ingestVars == <<tmp_file, response, attempts, method, result>>

\* Their values while the functions owning them are not running.
NotChunkingSections ==
    /\ chunk_words = <<>>
    /\ current_chunk = <<>>
    /\ current_page = 1

NotClassifying ==
    /\ line = <<>>
    /\ is_heading = FALSE

NotReadingDocx ==
    /\ paragraphs = <<>>
    /\ current_text = <<>>

\* No upload has been received: no temporary file, no response, no stage.
NoResponse ==
    [success |-> FALSE, method |-> "", error |-> "", total_chunks |-> 0]

NoResult == [stage |-> "", document |-> FALSE]

NotIngesting ==
    /\ tmp_file = "none"
    /\ response = NoResponse
    /\ attempts = <<>>
    /\ method = ""
    /\ result = NoResult

NotRunning ==
    NotChunkingSections /\ NotClassifying /\ NotReadingDocx /\ NotIngesting

\* ------------------------------------------------------------------ bounds
MaxPages == 2
MaxWords == 3
MaxNegSize == 1
MaxSize == 3
MaxChunks == 2

\* ------------------------------------------------------------- characters
SP == " "
NL == "\n"
FATHA == "FATHA"
SHADDA == "SHADDA"

\* Characters str.split() treats as separators.
Whitespace == {SP, NL, "\t", "\r"}

\* The character class [ًٌٍَُِّْ] of the assignment variants' re.sub.
Diacritics == {"FATHATAN", "DAMMATAN", "KASRATAN", FATHA, "DAMMA", "KASRA",
               SHADDA, "SUKUN"}

\* Python None, as a page number and as a string.
NonePage == -1
NoneStr == <<"<None>">>

Min(a, b) == IF a <= b THEN a ELSE b

\* ---------------------------------------------------------- Python strings
\* Variant of Slice whose end index is inclusive.
Slice_Inclusive(s, lo, hi) == SubSeq(s, lo + 1, Min(hi + 1, Len(s)))

\* s[lo:hi] for 0 <= lo (0-based, end exclusive, clamped to the length).
Slice(s, lo, hi) == SubSeq(s, lo + 1, Min(hi, Len(s)))

\* `s in t` for strings.
Contains(s, t) ==
    \E i \in 0..(Len(t) - Len(s)) : SubSeq(t, i + 1, i + Len(s)) = s

\* str.split(): maximal runs of non-whitespace characters, in order. The
\* text is read from position i one run of characters at a time: a run of
\* white space closes the word read so far, any other run extends it.
RECURSIVE SplitFrom(_, _, _)
SplitFrom(t, i, word) ==
    IF i > Len(t)
    THEN IF word = <<>> THEN <<>> ELSE <<word>>
    ELSE LET white == t[i] \in Whitespace
             ends == {j \in i..Len(t) :
                         (t[j] \in Whitespace) # white}
             next == IF ends = {} THEN Len(t) + 1
                     ELSE CHOOSE j \in ends : \A k \in ends : j <= k
         IN  IF white
             THEN IF word = <<>> THEN SplitFrom(t, next, <<>>)
                  ELSE <<word>> \o SplitFrom(t, next, <<>>)
             ELSE SplitFrom(t, next, word \o SubSeq(t, i, next - 1))

Split(t) == SplitFrom(t, 1, <<>>)

\* " ".join(words)
RECURSIVE Join(_)
Join(words) ==
    IF words = <<>> THEN <<>>
    ELSE IF Len(words) = 1 THEN words[1]
    ELSE words[1] \o <<SP>> \o Join(Tail(words))

\* Variant of RangeFrom that leaves out the last value.
RECURSIVE RangeFrom_DropsLast(_, _, _)
RangeFrom_DropsLast(i, n, step) ==
    IF i + step >= n THEN <<>>
    ELSE <<i>> \o RangeFrom_DropsLast(i + step, n, step)

\* range(0, n, step) as the sequence of its values; step = 0 raises
\* ValueError and is handled by the caller.
RECURSIVE RangeFrom(_, _, _)
RangeFrom(i, n, step) ==
    IF i >= n THEN <<>> ELSE <<i>> \o RangeFrom(i + step, n, step)

\* Variant of Range whose step is one too large.
Range_Wide(n, step) == IF step < 0 THEN <<>> ELSE RangeFrom(0, n, step + 1)

\* range(0, n, step) for the step of the chunkers.
Range(n, step) == IF step < 0 THEN <<>> ELSE RangeFrom(0, n, step)

\* ---------------------------------------------------------------- chunker
ChunkerVariants == {"main", "sample_pdf", "generate_pdf"}

\* Variant of MakeChunk that tags the chunk with the following page.
MakeChunk_NextPage(v, text, page) ==
    CASE v = "main" -> [text |-> text, page |-> page + 1]
      [] v = "sample_pdf" -> [text |-> text, meta |-> [page |-> page + 1]]
      [] v = "generate_pdf" ->
            [text |-> text, meta |-> [page |-> page + 1, section |-> NoneStr]]

\* The dict appended for one window.
MakeChunk(v, text, page) ==
    CASE v = "main" -> [text |-> text, page |-> page]
      [] v = "sample_pdf" -> [text |-> text, meta |-> [page |-> page]]
      [] v = "generate_pdf" ->
            [text |-> text, meta |-> [page |-> page, section |-> NoneStr]]

\* Variant of WindowsOver whose slice ends one word early.
RECURSIVE WindowsOver_ShortSlice(_, _, _, _, _)
WindowsOver_ShortSlice(v, words, page, starts, size) ==
    IF starts = <<>> THEN <<>>
    ELSE LET window == Slice(words, starts[1], starts[1] + size - 1)
             rest == WindowsOver_ShortSlice(v, words, page, Tail(starts), size)
         IN  IF window # <<>>
             THEN <<MakeChunk(v, Join(window), page)>> \o rest
             ELSE rest

\* The inner for loop over one page: one window per value of the range,
\* appended when non-empty.
RECURSIVE WindowsOver(_, _, _, _, _)
WindowsOver(v, words, page, starts, size) ==
    IF starts = <<>> THEN <<>>
    ELSE LET window == Slice(words, starts[1], starts[1] + size)
             rest == WindowsOver(v, words, page, Tail(starts), size)
         IN  IF window # <<>>
             THEN <<MakeChunk(v, Join(window), page)>> \o rest
             ELSE rest

\* Variant of PageWindows that returns a chunk without text for a page
\* without words.
PageWindows_NeverEmpty(v, page, size, ov) ==
    LET words == Split(page.text)
    IN  IF words = <<>> THEN <<MakeChunk(v, <<>>, page.page)>>
        ELSE WindowsOver(v, words, page.page, Range(Len(words), size - ov), size)

\* The windows of one page.
PageWindows(v, page, size, ov) ==
    LET words == Split(page.text)
    IN  WindowsOver(v, words, page.page, Range(Len(words), size - ov), size)

\* One iteration of `for page in pages`.
ChunkTextPagesStep ==
    /\ UNCHANGED <<accumulatorVars, classifierVars, docxVars, ingestVars>>
    /\ pc = "chunk_loop"
    /\ idx < Len(pages)
    /\ IF chunk_size - overlap = 0
       THEN /\ pc' = "ValueError"
            /\ UNCHANGED <<chunks, idx>>
       ELSE /\ chunks' = chunks \o
                    PageWindows(variant, pages[idx + 1], chunk_size, overlap)
            /\ idx' = idx + 1
            /\ pc' = pc
    /\ UNCHANGED <<variant, pages, chunk_size, overlap, sections, enriched,
                   current_section>>

\* `return chunks` after the last page.
ChunkTextPagesReturn ==
    /\ UNCHANGED <<accumulatorVars, classifierVars, docxVars, ingestVars>>
    /\ pc = "chunk_loop"
    /\ idx = Len(pages)
    /\ pc' = "chunk_done"
    /\ UNCHANGED <<variant, pages, chunk_size, overlap, chunks, sections,
                   enriched, current_section, idx>>

\* ----------------------------------------------------------- chunker input
Alphabet == <<"a", "b", "c", "d", "e">>

\* n words, the i-th being the i-th letter (so that a word tells its
\* position), or n times the same word.
Distinct(n) == [i \in 1..n |-> Alphabet[((i - 1) % Len(Alphabet)) + 1]]
Repeated(n) == [i \in 1..n |-> "a"]

WordLists == UNION {{Distinct(n), Repeated(n)} : n \in 0..MaxWords}

\* A page text with the given one-letter words: separated by single spaces,
\* or by newlines and blanks with blanks before the first and after the last.
RECURSIVE Compact(_)
Compact(ws) ==
    IF ws = <<>> THEN <<>>
    ELSE IF Len(ws) = 1 THEN <<ws[1]>>
    ELSE <<ws[1], SP>> \o Compact(Tail(ws))

RECURSIVE Spread(_)
Spread(ws) ==
    IF ws = <<>> THEN <<SP>>
    ELSE <<NL, SP, ws[1]>> \o Spread(Tail(ws))

PageTexts ==
    {Compact(ws) : ws \in WordLists} \cup {Spread(Distinct(n)) : n \in 0..MaxWords}

\* Page numbers are 1-based positions in the document; pages without text
\* are skipped by the extractors, so the first number may be larger than 1.
FirstPageNumbers == {1, 2}

\* The callers chunk only a non-empty page list.
PageLists ==
    UNION {{[i \in 1..n |-> [page |-> first + i - 1, text |-> txt[i]]] :
                txt \in [1..n -> PageTexts], first \in FirstPageNumbers} :
           n \in 1..MaxPages}

InitChunk ==
    /\ NotRunning
    /\ variant \in ChunkerVariants
    /\ pages \in PageLists
    /\ chunk_size \in (0 - MaxNegSize)..MaxSize
    /\ overlap \in 0..MaxSize
    /\ chunks = <<>>
    /\ sections = <<>>
    /\ enriched = <<>>
    /\ current_section = NoneStr
    /\ idx = 0
    /\ pc = "chunk_loop"

NextChunk == ChunkTextPagesStep \/ ChunkTextPagesReturn

SpecChunk == InitChunk /\ [][NextChunk]_vars

\* ------------------------------------------------------ section assignment
AssignVariants == {"main", "sample_pdf", "main_docling_arabic"}

\* Variant of PrefixLen that inspects a thousand characters.
PrefixLen_Thousand(v) == 1000

\* Number of leading characters of a chunk that are inspected.
PrefixLen(v) == IF v = "main" THEN 400 ELSE 500

\* Variant of SearchText that inspects the whole chunk.
SearchText_Whole(v, chunk_text) == chunk_text

\* chunk_text[:400] / chunk_text[:500]
SearchText(v, chunk_text) == Slice(chunk_text, 0, PrefixLen(v))

\* Variant of StripDiacritics that removes the first diacritic only.
StripDiacritics_First(s) ==
    LET marks == {i \in 1..Len(s) : s[i] \in Diacritics}
    IN  IF marks = {} THEN s
        ELSE LET p == CHOOSE i \in marks : \A j \in marks : i <= j
             IN  SubSeq(s, 1, p - 1) \o SubSeq(s, p + 1, Len(s))

\* re.sub(r'[<diacritics>]', '', s)
StripDiacritics(s) ==
    LET Kept(c) == c \notin Diacritics
    IN  SelectSeq(s, Kept)

\* The test of the inner `if`: exact substring in main.py; normalized or
\* exact substring in the two other variants.
Matches(v, section, search_text) ==
    IF v = "main"
    THEN Contains(section, search_text)
    ELSE \/ Contains(StripDiacritics(section), StripDiacritics(search_text))
         \/ Contains(section, search_text)

\* Variant of ScanSections without the break: the last match wins.
RECURSIVE ScanSections_Last(_, _, _)
ScanSections_Last(v, secs, search_text) ==
    IF secs = <<>> THEN NoneStr
    ELSE LET later == ScanSections_Last(v, Tail(secs), search_text)
         IN  IF later # NoneStr THEN later
             ELSE IF Matches(v, secs[1], search_text) THEN secs[1]
             ELSE NoneStr

\* `for section in sections: if <match>: found_section = section; break`
\* The value of found_section after the loop (None when nothing matched).
RECURSIVE ScanSections(_, _, _)
ScanSections(v, secs, search_text) ==
    IF secs = <<>> THEN NoneStr
    ELSE IF Matches(v, secs[1], search_text) THEN secs[1]
    ELSE ScanSections(v, Tail(secs), search_text)

\* Variant of NextCurrent that never updates current_section.
NextCurrent_Stale(found, cur) == cur

\* current_section after the inner loop: assigned only on a match.
NextCurrent(found, cur) == IF found # NoneStr THEN found ELSE cur

\* Python truthiness of found_section.
Falsy(s) == s = NoneStr \/ s = <<>>

\* Variant of ResolveSection without the fallback to current_section.
ResolveSection_NoFallback(found, cur) == found

\* `if not found_section: found_section = current_section`
ResolveSection(found, cur) == IF Falsy(found) THEN cur ELSE found

\* c["page"], c["meta"]["page"], c.get("page")
ChunkPageField(v, c) ==
    CASE v = "main" -> c.page
      [] v = "sample_pdf" -> c.meta.page
      [] v = "main_docling_arabic" ->
            IF "page" \in DOMAIN c THEN c.page ELSE NonePage

\* Variant of Str that writes the last digit only.
Str_LastDigit(n) ==
    <<<<"0", "1", "2", "3", "4", "5", "6", "7", "8", "9">>[(n % 10) + 1]>>

\* str(n) for n >= 0, and str(None).
RECURSIVE Str(_)
Str(n) ==
    LET digit == <<"0", "1", "2", "3", "4", "5", "6", "7", "8", "9">>[(n % 10) + 1]
    IN  IF n < 10 THEN <<digit>> ELSE Append(Str(n \div 10), digit)

FormatValue(p) == IF p = NonePage THEN <<"N", "o", "n", "e">> ELSE Str(p)

ArabicPage == <<"SAD", "FEH", "HAH", "TEH_MARBUTA">>
ArabicUnspecified ==
    <<"GHAIN", "YEH", "REH", SP, "MEEM", "HAH", "DAL", "DAL">>

\* The f-string of the no-sections branch.
PlaceholderSection(v, c) ==
    CASE v = "main" -> ArabicPage \o <<SP>> \o FormatValue(c.page)
      [] v = "sample_pdf" ->
            <<"P", "a", "g", "e", SP>> \o FormatValue(c.meta.page)
      [] v = "main_docling_arabic" ->
            ArabicPage \o <<SP>> \o
                (IF "page" \in DOMAIN c THEN FormatValue(c.page)
                 ELSE ArabicUnspecified)

\* Variant of Enrich that stores the inspected prefix as the text.
Enrich_Truncated(v, c, section) ==
    [text |-> SearchText(v, c.text),
     meta |-> [page |-> ChunkPageField(v, c), section |-> section]]

\* The dict appended to enriched.
Enrich(v, c, section) ==
    [text |-> c.text, meta |-> [page |-> ChunkPageField(v, c), section |-> section]]

\* `if not sections: return [... for c in chunks]`
AssignNoSections ==
    /\ UNCHANGED <<accumulatorVars, classifierVars, docxVars, ingestVars>>
    /\ pc = "assign_start"
    /\ sections = <<>>
    /\ enriched' = [i \in 1..Len(chunks) |->
                        Enrich(variant, chunks[i],
                               PlaceholderSection(variant, chunks[i]))]
    /\ pc' = "assign_done"
    /\ UNCHANGED <<variant, pages, chunk_size, overlap, chunks, sections,
                   current_section, idx>>

\* `enriched = []; current_section = sections[0]`
AssignBegin ==
    /\ UNCHANGED <<accumulatorVars, classifierVars, docxVars, ingestVars>>
    /\ pc = "assign_start"
    /\ sections # <<>>
    /\ enriched' = <<>>
    /\ current_section' = sections[1]
    /\ idx' = 0
    /\ pc' = "assign_loop"
    /\ UNCHANGED <<variant, pages, chunk_size, overlap, chunks, sections>>

\* One iteration of `for chunk in chunks`.
AssignChunk ==
    /\ UNCHANGED <<accumulatorVars, classifierVars, docxVars, ingestVars>>
    /\ pc = "assign_loop"
    /\ idx < Len(chunks)
    /\ LET chunk == chunks[idx + 1]
           found == ScanSections(variant, sections,
                                 SearchText(variant, chunk.text))
           cur == NextCurrent(found, current_section)
       IN  /\ current_section' = cur
           /\ enriched' = Append(enriched,
                                 Enrich(variant, chunk, ResolveSection(found, cur)))
    /\ idx' = idx + 1
    /\ UNCHANGED <<variant, pages, chunk_size, overlap, chunks, sections, pc>>

\* `return enriched`
AssignReturn ==
    /\ UNCHANGED <<accumulatorVars, classifierVars, docxVars, ingestVars>>
    /\ pc = "assign_loop"
    /\ idx = Len(chunks)
    /\ pc' = "assign_done"
    /\ UNCHANGED <<variant, pages, chunk_size, overlap, chunks, sections,
                   enriched, current_section, idx>>

\* ---------------------------------------------------- assignment input
DefaultChunkSize == 600
DefaultOverlap == 100

Filler(n) == [i \in 1..n |-> "x"]

\* Chunk texts: short texts with one or two headings, with a diacritic
\* inside a heading, with no heading, and long texts whose heading lies
\* across the end of the inspected prefix or just behind it.
ChunkTexts(v) ==
    {<<"a">>, <<"a", "b">>, <<"a", FATHA, "b">>, <<"x">>,
     Filler(PrefixLen(v) - 1) \o <<"a", "b">>,
     Filler(PrefixLen(v)) \o <<"a">>}

SectionTexts == {<<"a">>, <<"b">>, <<"a", "b">>}

\* Section lists: the headings of SectionTexts in any order, any number.
SectionLists ==
    UNION {{q \in [1..n -> SectionTexts] :
                \A i, j \in 1..n : i # j => q[i] # q[j]} :
           n \in 0..Cardinality(SectionTexts)}

\* Page numbers of a chunk list: the first chunks on page 1 and the others
\* on page 12, or (chunks converted from Docling chunks) all None.
PageColumns(v, n) ==
    {[i \in 1..n |-> IF i <= k THEN 1 ELSE 12] : k \in 0..n}
    \cup (IF v = "main" THEN {} ELSE {[i \in 1..n |-> NonePage]})

InputChunk(v, text, page) ==
    IF v = "sample_pdf"
    THEN [text |-> text, meta |-> [page |-> page]]
    ELSE [text |-> text, page |-> page]

ChunkLists(v) ==
    UNION {{[i \in 1..n |-> InputChunk(v, txt[i], pg[i])] :
                txt \in [1..n -> ChunkTexts(v)], pg \in PageColumns(v, n)} :
           n \in 0..MaxChunks}

InitAssign ==
    /\ NotRunning
    /\ variant \in AssignVariants
    /\ pages = <<>>
    /\ chunk_size = DefaultChunkSize
    /\ overlap = DefaultOverlap
    /\ chunks \in ChunkLists(variant)
    /\ sections \in SectionLists
    /\ enriched = <<>>
    /\ current_section = NoneStr
    /\ idx = 0
    /\ pc = "assign_start"

NextAssign == AssignNoSections \/ AssignBegin \/ AssignChunk \/ AssignReturn

SpecAssign == InitAssign /\ [][NextAssign]_vars

\* ------------------------------------------------- chunker: stated claims
CeilDiv(a, b) == (a + b - 1) \div b

\* Positions at which a whitespace-delimited word starts.
WordStarts(t) ==
    {i \in 1..Len(t) : t[i] \notin Whitespace /\ (i = 1 \/ t[i - 1] \in Whitespace)}

WordCount(t) == Cardinality(WordStarts(t))

ChunkPageNo(c) == IF "page" \in DOMAIN c THEN c.page ELSE c.meta.page

ChunksOfPage(n) ==
    LET OnPage(c) == ChunkPageNo(c) = n
    IN  SelectSeq(chunks, OnPage)

ValidConfig == 0 <= overlap /\ overlap < chunk_size

\* C7: with 0 < overlap < size, every page already processed has
\* contributed exactly ceil(wordcount / (size - overlap)) chunks (zero for a
\* page without words), and no chunk holds more than size words.
C7_WindowCount ==
    (pc \in {"chunk_loop", "chunk_done"} /\ 0 < overlap /\ overlap < chunk_size) =>
        \A i \in 1..Len(pages) :
            LET n == WordCount(pages[i].text)
                mine == ChunksOfPage(pages[i].page)
            IN  /\ Len(mine) = IF i <= idx
                               THEN CeilDiv(n, chunk_size - overlap)
                               ELSE 0
                /\ \A k \in 1..Len(mine) : WordCount(mine[k].text) <= chunk_size

C7_Witness ==
    /\ pc = "chunk_done"
    /\ 0 < overlap /\ overlap < chunk_size
    /\ \E i \in 1..Len(pages) :
          /\ WordCount(pages[i].text) = 3
          /\ chunk_size - overlap = 2
          /\ Len(ChunksOfPage(pages[i].page)) = 2
    /\ \E i \in 1..Len(pages) : WordCount(pages[i].text) = 0

\* The k-th window (k from 0) of a word sequence in closed form.
WindowAt(words, k, size, ov) ==
    SubSeq(words, k * (size - ov) + 1, Min(k * (size - ov) + size, Len(words)))

\* C8: with 0 <= overlap < size, the k-th chunk of a page is the space-joined
\* words at positions [k*(size-overlap), k*(size-overlap)+size) of the page's
\* split word sequence, truncated at the end of the page; a full chunk and
\* its successor on the same page share exactly overlap words.
C8_WindowContent ==
    (pc = "chunk_done" /\ ValidConfig) =>
        \A i \in 1..Len(pages) :
            LET words == Split(pages[i].text)
                mine == ChunksOfPage(pages[i].page)
            IN  /\ \A k \in 1..Len(mine) :
                      mine[k].text = Join(WindowAt(words, k - 1, chunk_size, overlap))
                /\ \A k \in 1..(Len(mine) - 1) :
                      LET earlier == Split(mine[k].text)
                          later == Split(mine[k + 1].text)
                      IN  Len(earlier) = chunk_size =>
                            /\ Len(later) >= overlap
                            /\ SubSeq(earlier, chunk_size - overlap + 1, chunk_size)
                                 = SubSeq(later, 1, overlap)

C8_Witness ==
    /\ pc = "chunk_done"
    /\ overlap = 1 /\ chunk_size = 2
    /\ \E i \in 1..Len(pages) :
          LET mine == ChunksOfPage(pages[i].page)
          IN  /\ Len(mine) = 3
              /\ mine[1].text = <<"a", SP, "b">>
              /\ mine[2].text = <<"b", SP, "c">>
              /\ mine[3].text = <<"c">>

\* C9: a call with overlap >= size never returns a chunk list.
C9_OverlapRejected == overlap >= chunk_size => pc # "chunk_done"

\* C10: a call with size <= 0 never returns a chunk list.
C10_SizeRejected == chunk_size <= 0 => pc # "chunk_done"

\* ---------------------------------------------- assignment: stated claims
InputPage(j) == ChunkPageNo(chunks[j])

AssignedSection(j) == enriched[j].meta.section

SectionSet == {sections[k] : k \in 1..Len(sections)}

\* s occurs in t as a contiguous run of characters.
Occurs(s, t) ==
    \E i \in 1..(Len(t) - Len(s) + 1) :
        \A k \in 1..Len(s) : t[i + k - 1] = s[k]

\* The first 400 (main.py) or 500 (other variants) characters of chunk j.
InspectedPrefix(j) ==
    LET t == chunks[j].text
        n == IF variant = "main" THEN 400 ELSE 500
    IN  [i \in 1..Min(n, Len(t)) |-> t[i]]

\* The heading s is found in the prefix p (q: p without diacritics):
\* literally, or (variants with the normalized test) after the diacritics are
\* dropped from both.
HeadingIn(s, p, q) ==
    \/ Occurs(s, p)
    \/ /\ variant # "main"
       /\ Occurs(StripDiacritics(s), q)

HeadingInPrefix(s, j) ==
    LET p == InspectedPrefix(j)
    IN  HeadingIn(s, p, StripDiacritics(p))

MatchingIdx(j) ==
    LET p == InspectedPrefix(j)
        q == StripDiacritics(p)
    IN  {k \in 1..Len(sections) : HeadingIn(sections[k], p, q)}

SetMin(S) == CHOOSE x \in S : \A y \in S : x <= y
SetMax(S) == CHOOSE x \in S : \A y \in S : x >= y

FirstMatching(j) == sections[SetMin(MatchingIdx(j))]

IsPagePlaceholder(s, j) ==
    \E label \in {ArabicPage, <<"P", "a", "g", "e">>} :
        s = label \o <<SP>> \o FormatValue(InputPage(j))

\* C1: assignment decorates 1:1 -- one enriched chunk per chunk processed,
\* the i-th with the text and the page of the i-th input chunk.
C1_OneToOne ==
    /\ pc = "assign_done" => Len(enriched) = Len(chunks)
    /\ pc = "assign_loop" => Len(enriched) = idx
    /\ \A i \in 1..Len(enriched) :
          /\ enriched[i].text = chunks[i].text
          /\ enriched[i].meta.page = InputPage(i)

C1_Witness ==
    /\ pc = "assign_done"
    /\ sections # <<>>
    /\ Len(enriched) = 2
    /\ Len(chunks[1].text) > 500
    /\ InputPage(1) = 1 /\ InputPage(2) = 12

\* C2 as stated: in the returned list every assigned section is a heading
\* whose text appears in the inspected prefix of its chunk, or the heading
\* assigned to the preceding chunk, or (no headings at all) a page
\* placeholder.
C2_ThreeSources ==
    pc = "assign_done" => \A j \in 1..Len(enriched) :
        \/ /\ AssignedSection(j) \in SectionSet
           /\ Occurs(AssignedSection(j), InspectedPrefix(j))
        \/ /\ j > 1
           /\ AssignedSection(j) = AssignedSection(j - 1)
        \/ /\ sections = <<>>
           /\ IsPagePlaceholder(AssignedSection(j), j)

\* C2 amended: in the returned list every assigned section is a heading
\* found in the inspected prefix by the variant's test (exact, or
\* diacritic-normalized where the variant has it), or the heading
\* assigned to the preceding chunk, or sections[0] for the first chunk, or
\* (no headings at all) a page placeholder.
C2_FourSources ==
    pc = "assign_done" => \A j \in 1..Len(enriched) :
        \/ /\ AssignedSection(j) \in SectionSet
           /\ HeadingInPrefix(AssignedSection(j), j)
        \/ /\ j > 1
           /\ AssignedSection(j) = AssignedSection(j - 1)
        \/ /\ j = 1
           /\ sections # <<>>
           /\ AssignedSection(j) = sections[1]
        \/ /\ sections = <<>>
           /\ IsPagePlaceholder(AssignedSection(j), j)

C2_Witness ==
    /\ pc = "assign_done"
    /\ Len(sections) = 2
    /\ Len(enriched) = 2
    /\ MatchingIdx(1) = {}
    /\ Len(chunks[1].text) > 500
    /\ AssignedSection(1) = sections[1]
    /\ MatchingIdx(2) = {2}
    /\ AssignedSection(2) = sections[2]
    /\ sections[1] # sections[2]

\* C3 (results): in the returned list a chunk without a match carries the
\* section matched by the
\* nearest preceding chunk that had a match, or sections[0] if there is none.
C3_CarryForward ==
    (pc = "assign_done" /\ sections # <<>>) =>
        \A j \in 1..Len(enriched) :
            MatchingIdx(j) = {} =>
                LET prev == {i \in 1..(j - 1) : MatchingIdx(i) # {}}
                IN  AssignedSection(j) = IF prev = {} THEN sections[1]
                                         ELSE FirstMatching(SetMax(prev))

\* C3 (steps): inside the loop current_section changes only when the chunk
\* being processed matches, and then becomes the matched section.
C3_ChangeOnlyOnMatch ==
    (pc = "assign_loop" /\ current_section' # current_section) =>
        /\ MatchingIdx(idx + 1) # {}
        /\ current_section' = FirstMatching(idx + 1)

\* C3: sticky carry-forward.
C3_Sticky == []C3_CarryForward /\ [][C3_ChangeOnlyOnMatch]_vars

C3_Witness ==
    /\ pc = "assign_done"
    /\ Len(sections) = 2
    /\ Len(enriched) = 2
    /\ MatchingIdx(1) = {2}
    /\ MatchingIdx(2) = {}
    /\ AssignedSection(2) = sections[2]
    /\ sections[1] # sections[2]

\* C4: in the returned list, when several sections occur in a chunk's
\* prefix the chunk has the one with the smallest index in sections.
C4_FirstMatchWins ==
    pc = "assign_done" => \A j \in 1..Len(enriched) :
        LET m == MatchingIdx(j)
        IN  m # {} => AssignedSection(j) = sections[SetMin(m)]

C4_Witness ==
    /\ pc = "assign_done"
    /\ sections = <<<<"b">>, <<"a", "b">>>>
    /\ Len(enriched) >= 1
    /\ chunks[1].text = <<"a", "b">>
    /\ MatchingIdx(1) = {1, 2}
    /\ AssignedSection(1) = <<"b">>

DigitChars == <<"0", "1", "2", "3", "4", "5", "6", "7", "8", "9">>

DigitValue(c) == CHOOSE k \in 0..9 : DigitChars[k + 1] = c

RECURSIVE DecimalValue(_)
DecimalValue(d) ==
    IF d = <<>> THEN 0
    ELSE 10 * DecimalValue(SubSeq(d, 1, Len(d) - 1)) + DigitValue(d[Len(d)])

\* d is the decimal numeral of n (None is written "None").
IsNumeralOf(d, n) ==
    IF n = NonePage THEN d = <<"N", "o", "n", "e">>
    ELSE /\ d # <<>>
         /\ \A i \in 1..Len(d) : \E k \in 1..10 : DigitChars[k] = d[i]
         /\ (Len(d) > 1 => d[1] # "0")
         /\ DecimalValue(d) = n

\* s is label, one space, and the numeral of n.
IsLabelled(s, label, n) ==
    /\ Len(s) > Len(label) + 1
    /\ SubSeq(s, 1, Len(label)) = label
    /\ s[Len(label) + 1] = SP
    /\ IsNumeralOf(SubSeq(s, Len(label) + 2, Len(s)), n)

\* C5 as stated: with no sections every chunk's section is "Page {page}".
C5_EnglishPlaceholder ==
    (pc = "assign_done" /\ sections = <<>>) =>
        /\ Len(enriched) = Len(chunks)
        /\ \A j \in 1..Len(enriched) :
              IsLabelled(AssignedSection(j), <<"P", "a", "g", "e">>, InputPage(j))

\* C5 amended: with no sections there is one enriched chunk per chunk, its
\* section is the variant's page word ("Page" in sample_pdf.py, the Arabic
\* word for page in main.py and main_docling_arabic.py), a space and the
\* chunk's page number, and the matching loop is never entered.
C5_VariantPlaceholder ==
    (pc = "assign_done" /\ sections = <<>>) =>
        /\ Len(enriched) = Len(chunks)
        /\ \A j \in 1..Len(enriched) :
              IsLabelled(AssignedSection(j),
                         IF variant = "sample_pdf" THEN <<"P", "a", "g", "e">>
                         ELSE <<"SAD", "FEH", "HAH", "TEH_MARBUTA">>,
                         InputPage(j))
        /\ idx = 0
        /\ current_section = NoneStr

C5_Witness ==
    /\ pc = "assign_done"
    /\ sections = <<>>
    /\ variant = "main"
    /\ Len(enriched) = 2
    /\ InputPage(1) = 1
    /\ InputPage(2) = 12
    /\ AssignedSection(2) = <<"SAD", "FEH", "HAH", "TEH_MARBUTA", SP, "1", "2">>

\* C6: with a non-empty section list no assigned section is None, every
\* assigned section is an element of sections, and current_section holds an
\* element of sections from the start of the loop onward.
C6_NeverNull ==
    sections # <<>> =>
        /\ \A j \in 1..Len(enriched) :
              /\ AssignedSection(j) # NoneStr
              /\ AssignedSection(j) \in SectionSet
        /\ pc \in {"assign_loop", "assign_done"} => current_section \in SectionSet

C6_Witness ==
    /\ pc = "assign_done"
    /\ sections # <<>>
    /\ Len(enriched) = 2
    /\ MatchingIdx(1) = {}
    /\ MatchingIdx(2) = {}
    /\ AssignedSection(2) = sections[1]

\* ------------------------------------------------ chunk_text_with_sections
Max(a, b) == IF a >= b THEN a ELSE b

\* A slice bound as Python normalizes it: a negative bound counts from the
\* end, and every bound is clamped to 0..n.
PyIndex(i, n) == IF i < 0 THEN Max(i + n, 0) ELSE Min(i, n)

\* Variant of SliceFrom that keeps the whole sequence.
SliceFrom_Whole(s, lo) == s

\* s[lo:]
SliceFrom(s, lo) == SubSeq(s, PyIndex(lo, Len(s)) + 1, Len(s))

\* s[:hi]
SliceTo(s, hi) == SubSeq(s, 1, PyIndex(hi, Len(s)))

\* The dict appended for one chunk.
SectionChunk(text, page, section) ==
    [text |-> text, meta |-> [page |-> page, section |-> section]]

\* `for word in words`: the word is appended, and a full accumulator is
\* emitted and cut down to its overlap. The accumulator and the chunk list
\* after the loop.
RECURSIVE WordLoop(_, _, _, _, _, _, _)
WordLoop(words, acc, out, size, ov, page, section) ==
    IF words = <<>> THEN [chunk_words |-> acc, chunks |-> out]
    ELSE LET appended == Append(acc, words[1])
         IN  IF Len(appended) >= size
             THEN WordLoop(Tail(words),
                           IF ov > 0 THEN SliceFrom(appended, size - ov) ELSE <<>>,
                           Append(out, SectionChunk(Join(SliceTo(appended, size)),
                                                    page, section)),
                           size, ov, page, section)
             ELSE WordLoop(Tail(words), appended, out, size, ov, page, section)

\* One iteration of `for item in text_pages`.
ChunkTextWithSectionsItem ==
    /\ pc = "sections_loop"
    /\ idx < Len(pages)
    /\ LET item == pages[idx + 1]
           words == Split(item.text)
           changed == item.section # current_section /\ current_chunk # <<>>
           saved == IF changed /\ chunk_words # <<>>
                    THEN Append(chunks, SectionChunk(Join(chunk_words),
                                                     current_page, current_section))
                    ELSE chunks
           r == WordLoop(words, IF changed THEN <<>> ELSE chunk_words, saved,
                         chunk_size, overlap, item.page, item.section)
       IN  /\ chunks' = r.chunks
           /\ chunk_words' = r.chunk_words
           /\ current_chunk' = IF changed THEN <<>> ELSE current_chunk
           /\ current_section' = item.section
           /\ current_page' = item.page
    /\ idx' = idx + 1
    /\ UNCHANGED <<variant, pages, chunk_size, overlap, sections, enriched, pc,
                   classifierVars, docxVars, ingestVars>>

\* The final chunk and `return chunks`.
ChunkTextWithSectionsReturn ==
    /\ pc = "sections_loop"
    /\ idx = Len(pages)
    /\ chunks' = IF chunk_words # <<>>
                 THEN Append(chunks, SectionChunk(Join(chunk_words),
                                                  current_page, current_section))
                 ELSE chunks
    /\ pc' = "sections_done"
    /\ UNCHANGED <<variant, pages, chunk_size, overlap, sections, enriched,
                   current_section, idx, accumulatorVars, classifierVars,
                   docxVars, ingestVars>>

\* ------------------------------------------ chunk_text_with_sections input
MaxItems == 3

\* The section of a line that no heading precedes on its page, and a
\* numbered heading line.
Document == <<"D", "o", "c", "u", "m", "e", "n", "t">>
NumberedHeading == <<"1", SP, "-", SP, "A">>

SectionNames == {Document, NumberedHeading}

\* The n words of the i-th item: the letter tells the item, the digit the
\* position in it.
ItemWords(i, n) ==
    [k \in 1..n |-> <<Alphabet[((i - 1) % Len(Alphabet)) + 1],
                      <<"1", "2">>[k]>>]

\* The items extract_text_with_enhanced_pypdf2 builds: one per non-heading
\* line, pages in order, each page starting in section "Document" unless a
\* heading precedes its first line, and never returning to it on the page.
SectionColumns(n, k) ==
    {q \in [1..n -> SectionNames] :
        \A i \in 2..n :
            (q[i] = Document /\ q[i - 1] # Document) => (i = k + 1)}

\* n items, the first k on page 1 and the others on page 2.
ItemsOn(n, k) ==
    {[i \in 1..n |-> [page |-> IF i <= k THEN 1 ELSE 2,
                      text |-> Join(ItemWords(i, cnt[i])),
                      section |-> sec[i]]] :
        cnt \in [1..n -> 1..2], sec \in SectionColumns(n, k)}

ItemLists == UNION {ItemsOn(n, k) : n \in 1..MaxItems, k \in 0..MaxItems}

InitSections ==
    /\ NotRunning
    /\ variant = "main_simple_custom_sections"
    /\ pages \in ItemLists
    /\ chunk_size \in (0 - MaxNegSize)..MaxSize
    /\ overlap \in 0..MaxSize
    /\ chunks = <<>>
    /\ sections = <<>>
    /\ enriched = <<>>
    /\ current_section = NoneStr
    /\ idx = 0
    /\ pc = "sections_loop"

NextSections == ChunkTextWithSectionsItem \/ ChunkTextWithSectionsReturn

SpecSections == InitSections /\ [][NextSections]_vars

\* Every chunker of the repository.
InitChunkers == InitChunk \/ InitSections

NextChunkers ==
    \/ ChunkTextPagesStep
    \/ ChunkTextPagesReturn
    \/ ChunkTextWithSectionsItem
    \/ ChunkTextWithSectionsReturn

SpecChunkers == InitChunkers /\ [][NextChunkers]_vars

\* ------------------------------------------------ chunkers: stated claims
\* The words of the input entries tagged with page p, in input order.
RECURSIVE WordsOn(_, _)
WordsOn(entries, p) ==
    IF entries = <<>> THEN <<>>
    ELSE (IF entries[1].page = p THEN Split(entries[1].text) ELSE <<>>)
             \o WordsOn(Tail(entries), p)

\* The words of all input entries, in input order.
RECURSIVE AllWords(_)
AllWords(entries) ==
    IF entries = <<>> THEN <<>>
    ELSE Split(entries[1].text) \o AllWords(Tail(entries))

\* Offsets at which ws is a contiguous run of all.
RunOffsets(ws, all) ==
    {o \in 0..(Len(all) - Len(ws)) : SubSeq(all, o + 1, o + Len(ws)) = ws}

ChunkWords(j) == Split(chunks[j].text)

OwnPageOffsets(j) == RunOffsets(ChunkWords(j), WordsOn(pages, ChunkPageNo(chunks[j])))

\* Every chunk is a run of the words of the page it is tagged with, and the
\* chunks are in page order, then in window order.
PageWise ==
    /\ \A j \in 1..Len(chunks) : OwnPageOffsets(j) # {}
    /\ \A j \in 1..(Len(chunks) - 1) :
          \/ ChunkPageNo(chunks[j]) < ChunkPageNo(chunks[j + 1])
          \/ /\ ChunkPageNo(chunks[j]) = ChunkPageNo(chunks[j + 1])
             /\ \E o1 \in OwnPageOffsets(j), o2 \in OwnPageOffsets(j + 1) : o1 < o2

Returned == pc \in {"chunk_done", "sections_done"}

\* The item of chunk_text_with_sections's input a word was read from.
ItemOfWord(w) == CHOOSE i \in 1..Len(Alphabet) : Alphabet[i] = w[1]

\* C11 as stated: whichever chunker ran, with 0 <= overlap < size every
\* returned chunk consists of words of a single page, is tagged with that
\* page's number, and the chunks are in page order, then in window order.
C11_NeverAcrossPages == (Returned /\ ValidConfig) => PageWise

\* C11 amended: that holds for the chunkers that window each page on its
\* own (chunk_text_pages, chunk_plain_text, chunk_text); a chunk of
\* chunk_text_with_sections is a run of the words of the whole document,
\* pages joined, tagged with the page of the item its last word was read
\* from.
C11_PageWiseChunkers ==
    (Returned /\ ValidConfig) =>
        /\ variant \in ChunkerVariants => PageWise
        /\ variant = "main_simple_custom_sections" =>
              \A j \in 1..Len(chunks) :
                  LET ws == ChunkWords(j)
                  IN  /\ ws # <<>>
                      /\ RunOffsets(ws, AllWords(pages)) # {}
                      /\ ChunkPageNo(chunks[j]) = pages[ItemOfWord(ws[Len(ws)])].page

C11_Witness ==
    /\ pc = "chunk_done"
    /\ variant \in ChunkerVariants
    /\ chunk_size = 2 /\ overlap = 1
    /\ Len(pages) = 2
    /\ Split(pages[1].text) = <<<<"a">>, <<"b">>, <<"c">>>>
    /\ Split(pages[2].text) = <<<<"a">>, <<"b">>>>
    /\ Len(chunks) = 5
    /\ ChunkPageNo(chunks[3]) = pages[1].page
    /\ ChunkPageNo(chunks[4]) = pages[2].page
    /\ chunks[4].text = <<"a", SP, "b">>

\* C19: in chunk_text_with_sections, with 0 <= overlap < size, the words
\* waiting in the accumulator all belong to the section of the item read
\* last, and every emitted chunk holds words of one section only and is
\* tagged with that section.
C19_OneSectionPerChunk ==
    (variant = "main_simple_custom_sections" /\ ValidConfig) =>
        /\ \A k \in 1..Len(chunk_words) :
              pages[ItemOfWord(chunk_words[k])].section = current_section
        /\ \A j \in 1..Len(chunks) :
              \A k \in 1..Len(ChunkWords(j)) :
                  pages[ItemOfWord(ChunkWords(j)[k])].section
                      = chunks[j].meta.section

\* ------------------------------------------------- heading keyword lists
\* main.py: section_keywords.
section_keywords ==
    <<<<"ALEF", "LAM", "WAW", "HAH", "DAL", "TEH_MARBUTA">>,
      <<"WAW", "HAH", "DAL", "TEH_MARBUTA">>,
      <<"ALEF", "LAM", "FEH", "SAD", "LAM">>,
      <<"FEH", "SAD", "LAM">>,
      <<"ALEF", "LAM", "MEEM", "QAF", "DAL", "MEEM", "TEH_MARBUTA">>,
      <<"MEEM", "QAF", "DAL", "MEEM", "TEH_MARBUTA">>,
      <<"ALEF", "LAM", "KHAH", "ALEF", "TEH", "MEEM", "TEH_MARBUTA">>,
      <<"ALEF", "LAM", "ALEF_WITH_HAMZA_ABOVE", "HEH", "DAL", "ALEF", "FEH">>,
      <<"ALEF_WITH_HAMZA_ABOVE", "HEH", "DAL", "ALEF", "FEH">>,
      <<"ALEF", "LAM", "MEEM", "NOON", "HEH", "JEEM", "YEH", "TEH_MARBUTA">>,
      <<"MEEM", "NOON", "HEH", "JEEM", "YEH", "TEH_MARBUTA">>,
      <<"ALEF", "LAM", "TEH", "QAF", "WAW", "YEH", "MEEM">>,
      <<"TEH", "QAF", "WAW", "YEH", "MEEM">>,
      <<"ALEF", "LAM", "BEH", "ALEF", "BEH">>,
      <<"ALEF", "LAM", "QAF", "SEEN", "MEEM">>,
      <<"ALEF", "LAM", "JEEM", "ZAIN", "HAMZA">>,
      <<"FEH", "TEH", "REH", "TEH_MARBUTA", " ", "ALEF", "LAM", "MEEM", "REH",
          "ALEF", "JEEM", "AIN", "TEH_MARBUTA">>>>

\* sample_pdf.py: heading_keywords.
heading_keywords ==
    <<<<"ALEF", "LAM", "WAW", "HAH", "DAL", "TEH_MARBUTA">>,
      <<"WAW", "HAH", "DAL", "TEH_MARBUTA">>,
      <<"ALEF", "LAM", "FEH", "SAD", "LAM">>,
      <<"FEH", "SAD", "LAM">>,
      <<"ALEF", "LAM", "MEEM", "QAF", "DAL", "MEEM", "TEH_MARBUTA">>,
      <<"MEEM", "QAF", "DAL", "MEEM", "TEH_MARBUTA">>,
      <<"ALEF", "LAM", "KHAH", "ALEF", "TEH", "MEEM", "TEH_MARBUTA">>,
      <<"KHAH", "ALEF", "TEH", "MEEM", "TEH_MARBUTA">>,
      <<"ALEF", "LAM", "ALEF_WITH_HAMZA_ABOVE", "HEH", "DAL", "ALEF", "FEH">>,
      <<"ALEF_WITH_HAMZA_ABOVE", "HEH", "DAL", "ALEF", "FEH">>,
      <<"ALEF", "LAM", "MEEM", "NOON", "HEH", "JEEM", "YEH", "TEH_MARBUTA">>,
      <<"MEEM", "NOON", "HEH", "JEEM", "YEH", "TEH_MARBUTA">>,
      <<"ALEF", "LAM", "TEH", "QAF", "WAW", "YEH", "MEEM">>,
      <<"TEH", "QAF", "WAW", "YEH", "MEEM">>,
      <<"ALEF", "LAM", "BEH", "ALEF", "BEH">>,
      <<"BEH", "ALEF", "BEH">>,
      <<"ALEF", "LAM", "QAF", "SEEN", "MEEM">>,
      <<"QAF", "SEEN", "MEEM">>,
      <<"ALEF", "LAM", "JEEM", "ZAIN", "HAMZA">>,
      <<"JEEM", "ZAIN", "HAMZA">>,
      <<"ALEF", "LAM", "FEH", "REH", "AIN">>,
      <<"FEH", "REH", "AIN">>,
      <<"ALEF", "LAM", "DAL", "REH", "SEEN">>,
      <<"DAL", "REH", "SEEN">>,
      <<"C", "H", "A", "P", "T", "E", "R">>,
      <<"U", "N", "I", "T">>,
      <<"S", "E", "C", "T", "I", "O", "N">>,
      <<"I", "N", "T", "R", "O", "D", "U", "C", "T", "I", "O", "N">>,
      <<"C", "O", "N", "C", "L", "U", "S", "I", "O", "N">>,
      <<"O", "B", "J", "E", "C", "T", "I", "V", "E", "S">>,
      <<"M", "E", "T", "H", "O", "D", "O", "L", "O", "G", "Y">>,
      <<"A", "S", "S", "E", "S", "S", "M", "E", "N", "T">>,
      <<"L", "E", "S", "S", "O", "N">>>>

\* main_docling_arabic.py: arabic_indicators.
arabic_indicators ==
    <<<<"ALEF", "LAM", "WAW", "HAH", "DAL", "TEH_MARBUTA">>,
      <<"WAW", "HAH", "DAL", "TEH_MARBUTA">>,
      <<"ALEF", "LAM", "FEH", "SAD", "LAM">>,
      <<"FEH", "SAD", "LAM">>,
      <<"ALEF", "LAM", "MEEM", "QAF", "DAL", "MEEM", "TEH_MARBUTA">>,
      <<"MEEM", "QAF", "DAL", "MEEM", "TEH_MARBUTA">>,
      <<"ALEF", "LAM", "KHAH", "ALEF", "TEH", "MEEM", "TEH_MARBUTA">>,
      <<"KHAH", "ALEF", "TEH", "MEEM", "TEH_MARBUTA">>,
      <<"ALEF", "LAM", "ALEF_WITH_HAMZA_ABOVE", "HEH", "DAL", "ALEF", "FEH">>,
      <<"ALEF_WITH_HAMZA_ABOVE", "HEH", "DAL", "ALEF", "FEH">>,
      <<"ALEF", "LAM", "MEEM", "NOON", "HEH", "JEEM", "YEH", "TEH_MARBUTA">>,
      <<"MEEM", "NOON", "HEH", "JEEM", "YEH", "TEH_MARBUTA">>,
      <<"ALEF", "LAM", "TEH", "QAF", "WAW", "YEH", "MEEM">>,
      <<"TEH", "QAF", "WAW", "YEH", "MEEM">>,
      <<"ALEF", "LAM", "BEH", "ALEF", "BEH">>,
      <<"BEH", "ALEF", "BEH">>,
      <<"ALEF", "LAM", "QAF", "SEEN", "MEEM">>,
      <<"QAF", "SEEN", "MEEM">>,
      <<"ALEF", "LAM", "JEEM", "ZAIN", "HAMZA">>,
      <<"JEEM", "ZAIN", "HAMZA">>,
      <<"ALEF", "LAM", "FEH", "REH", "AIN">>,
      <<"FEH", "REH", "AIN">>,
      <<"ALEF", "LAM", "MEEM", "LAM", "HAH", "QAF">>,
      <<"MEEM", "LAM", "HAH", "QAF">>,
      <<"ALEF", "LAM", "MEEM", "REH", "ALEF", "JEEM", "AIN">>,
      <<"MEEM", "REH", "ALEF", "JEEM", "AIN">>,
      <<"FEH", "TEH", "REH", "TEH_MARBUTA", " ", "ALEF", "LAM", "MEEM", "REH",
          "ALEF", "JEEM", "AIN", "TEH_MARBUTA">>>>

\* main_docling_arabic.py: english_indicators.
english_indicators ==
    <<<<"c", "h", "a", "p", "t", "e", "r">>,
      <<"s", "e", "c", "t", "i", "o", "n">>,
      <<"u", "n", "i", "t">>,
      <<"i", "n", "t", "r", "o", "d", "u", "c", "t", "i", "o", "n">>,
      <<"c", "o", "n", "c", "l", "u", "s", "i", "o", "n">>,
      <<"a", "b", "s", "t", "r", "a", "c", "t">>,
      <<"s", "u", "m", "m", "a", "r", "y">>,
      <<"a", "p", "p", "e", "n", "d", "i", "x">>,
      <<"r", "e", "f", "e", "r", "e", "n", "c", "e", "s">>,
      <<"b", "i", "b", "l", "i", "o", "g", "r", "a", "p", "h", "y">>,
      <<"p", "a", "r", "t">>,
      <<"v", "o", "l", "u", "m", "e">>,
      <<"p", "r", "e", "f", "a", "c", "e">>,
      <<"f", "o", "r", "e", "w", "o", "r", "d">>,
      <<"a", "c", "k", "n", "o", "w", "l", "e", "d", "g", "m", "e", "n", "t",
          "s">>,
      <<"t", "a", "b", "l", "e", " ", "o", "f", " ", "c", "o", "n", "t", "e",
          "n", "t", "s">>,
      <<"i", "n", "d", "e", "x">>,
      <<"g", "l", "o", "s", "s", "a", "r", "y">>>>

\* main_docling_arabic.py: french_indicators.
french_indicators ==
    <<<<"c", "h", "a", "p", "i", "t", "r", "e">>,
      <<"s", "e", "c", "t", "i", "o", "n">>,
      <<"u", "n", "i", "t", "LATIN_SMALL_LETTER_E_WITH_ACUTE">>,
      <<"i", "n", "t", "r", "o", "d", "u", "c", "t", "i", "o", "n">>,
      <<"c", "o", "n", "c", "l", "u", "s", "i", "o", "n">>,
      <<"r", "LATIN_SMALL_LETTER_E_WITH_ACUTE", "s", "u", "m",
          "LATIN_SMALL_LETTER_E_WITH_ACUTE">>,
      <<"a", "n", "n", "e", "x", "e">>,
      <<"r", "LATIN_SMALL_LETTER_E_WITH_ACUTE", "f",
          "LATIN_SMALL_LETTER_E_WITH_ACUTE", "r", "e", "n", "c", "e", "s">>,
      <<"b", "i", "b", "l", "i", "o", "g", "r", "a", "p", "h", "i", "e">>,
      <<"p", "a", "r", "t", "i", "e">>,
      <<"v", "o", "l", "u", "m", "e">>,
      <<"p", "r", "LATIN_SMALL_LETTER_E_WITH_ACUTE", "f", "a", "c", "e">>,
      <<"a", "v", "a", "n", "t", "-", "p", "r", "o", "p", "o", "s">>,
      <<"r", "e", "m", "e", "r", "c", "i", "e", "m", "e", "n", "t", "s">>,
      <<"t", "a", "b", "l", "e", " ", "d", "e", "s", " ", "m", "a", "t", "i",
          "LATIN_SMALL_LETTER_E_WITH_GRAVE", "r", "e", "s">>,
      <<"i", "n", "d", "e", "x">>,
      <<"g", "l", "o", "s", "s", "a", "i", "r", "e">>,
      <<"o", "b", "j", "e", "c", "t", "i", "f", "s">>,
      <<"m", "LATIN_SMALL_LETTER_E_WITH_ACUTE", "t", "h", "o", "d", "o", "l",
          "o", "g", "i", "e">>,
      <<"LATIN_SMALL_LETTER_E_WITH_ACUTE", "v", "a", "l", "u", "a", "t", "i",
          "o", "n">>>>

section_indicators == arabic_indicators \o english_indicators \o french_indicators

\* main.py: the alternatives of the two groups of the ordinal pattern.
OrdinalHeads ==
    <<<<"ALEF", "LAM", "WAW", "HAH", "DAL", "TEH_MARBUTA">>,
      <<"ALEF", "LAM", "FEH", "SAD", "LAM">>,
      <<"ALEF", "LAM", "BEH", "ALEF", "BEH">>>>

OrdinalStems ==
    <<<<"ALEF", "LAM", "ALEF_WITH_HAMZA_ABOVE", "WAW", "LAM">>,
      <<"ALEF", "LAM", "THEH", "ALEF", "NOON">>,
      <<"ALEF", "LAM", "THEH", "ALEF", "LAM", "THEH">>,
      <<"ALEF", "LAM", "REH", "ALEF", "BEH", "AIN">>,
      <<"ALEF", "LAM", "KHAH", "ALEF", "MEEM", "SEEN">>,
      <<"ALEF", "LAM", "SEEN", "ALEF", "DAL", "SEEN">>,
      <<"ALEF", "LAM", "SEEN", "ALEF", "BEH", "AIN">>,
      <<"ALEF", "LAM", "THEH", "ALEF", "MEEM", "NOON">>>>
\* The characters of U+0600..U+06FF that occur in the scripts and in the
\* model's texts.
ArabicBlock ==
    {"ARABIC_COMMA", "ARABIC_SEMICOLON", "HAMZA", "ALEF_WITH_MADDA_ABOVE",
        "ALEF_WITH_HAMZA_ABOVE", "ALEF_WITH_HAMZA_BELOW",
        "YEH_WITH_HAMZA_ABOVE", "ALEF", "BEH", "TEH_MARBUTA", "TEH", "THEH",
        "JEEM", "HAH", "KHAH", "DAL", "REH", "ZAIN", "SEEN", "SHEEN", "SAD",
        "DAD", "ZAH", "AIN", "GHAIN", "FEH", "QAF", "LAM", "MEEM", "NOON",
        "HEH", "WAW", "ALEF_MAKSURA", "YEH", "FATHATAN", "DAMMATAN",
        "KASRATAN", "FATHA", "DAMMA", "KASRA", "SHADDA", "SUKUN",
        "ARABIC-INDIC_DIGIT_ZERO", "ARABIC-INDIC_DIGIT_ONE",
        "ARABIC-INDIC_DIGIT_TWO", "ARABIC-INDIC_DIGIT_THREE",
        "ARABIC-INDIC_DIGIT_FOUR", "ARABIC-INDIC_DIGIT_FIVE",
        "ARABIC-INDIC_DIGIT_SIX", "ARABIC-INDIC_DIGIT_SEVEN",
        "ARABIC-INDIC_DIGIT_EIGHT", "ARABIC-INDIC_DIGIT_NINE"}

\* The character class [U+0660-U+0669] written with its members.
ArabicIndicDigits ==
    {"ARABIC-INDIC_DIGIT_ZERO", "ARABIC-INDIC_DIGIT_ONE",
        "ARABIC-INDIC_DIGIT_TWO", "ARABIC-INDIC_DIGIT_THREE",
        "ARABIC-INDIC_DIGIT_FOUR", "ARABIC-INDIC_DIGIT_FIVE",
        "ARABIC-INDIC_DIGIT_SIX", "ARABIC-INDIC_DIGIT_SEVEN",
        "ARABIC-INDIC_DIGIT_EIGHT", "ARABIC-INDIC_DIGIT_NINE"}

\* "<unit> <first>: <functions>", a keyword line.
UnitOneFunctions ==
    <<"ALEF", "LAM", "WAW", "HAH", "DAL", "TEH_MARBUTA", " ", "ALEF", "LAM",
        "ALEF_WITH_HAMZA_ABOVE", "WAW", "LAM", "ALEF_MAKSURA", ":", " ",
        "ALEF", "LAM", "DAL", "WAW", "ALEF", "LAM">>

\* "<the introduction>", a keyword line.
Introduction ==
    <<"ALEF", "LAM", "MEEM", "QAF", "DAL", "MEEM", "TEH_MARBUTA">>

\* "<chapter>", a keyword of three characters.
ChapterWord ==
    <<"FEH", "SAD", "LAM">>

\* "<plain text here>.", a sentence.
PlainSentence ==
    <<"NOON", "SAD", " ", "AIN", "ALEF", "DAL", "YEH", " ", "HEH", "NOON",
        "ALEF", ".">>

\* The same without the full stop: eleven characters.
PlainPhrase ==
    <<"NOON", "SAD", " ", "AIN", "ALEF", "DAL", "YEH", " ", "HEH", "NOON",
        "ALEF">>

\* The same ending with an Arabic comma.
PlainPhraseComma ==
    <<"NOON", "SAD", " ", "AIN", "ALEF", "DAL", "YEH", " ", "HEH", "NOON",
        "ALEF", "ARABIC_COMMA">>

\* Ten characters of Arabic script.
TenArabic ==
    <<"NOON", "SAD", " ", "AIN", "ALEF", "DAL", "YEH", " ", "HEH", "NOON">>

\* "<the section>" written with ALEF WITH HAMZA BELOW.
HamzaBelowSection ==
    <<"ALEF_WITH_HAMZA_BELOW", "LAM", "QAF", "SEEN", "MEEM">>

\* A line numbered with an Arabic-Indic digit.
ArabicNumbered ==
    <<"ARABIC-INDIC_DIGIT_THREE", "-", " ", "NOON", "SAD">>

\* "<chapter> <first>: <functions>".
ChapterOneFunctions ==
    <<"ALEF", "LAM", "FEH", "SAD", "LAM", " ", "ALEF", "LAM",
        "ALEF_WITH_HAMZA_ABOVE", "WAW", "LAM", ":", " ", "ALEF", "LAM", "DAL",
        "WAW", "ALEF", "LAM">>

\* "<other text>."
OtherSentence ==
    <<"NOON", "SAD", " ", "ALEF_WITH_MADDA_ABOVE", "KHAH", "REH", ".">>
\* -------------------------------------------------- Python str and re
UpperCase ==
    <<"A", "B", "C", "D", "E", "F", "G", "H", "I", "J", "K", "L", "M", "N",
      "O", "P", "Q", "R", "S", "T", "U", "V", "W", "X", "Y", "Z",
      "LATIN_CAPITAL_LETTER_E_WITH_ACUTE">>

LowerCase ==
    <<"a", "b", "c", "d", "e", "f", "g", "h", "i", "j", "k", "l", "m", "n",
      "o", "p", "q", "r", "s", "t", "u", "v", "w", "x", "y", "z",
      "LATIN_SMALL_LETTER_E_WITH_ACUTE">>

UpperSet == {UpperCase[i] : i \in 1..Len(UpperCase)}
LowerSet == {LowerCase[i] : i \in 1..Len(LowerCase)}

\* str.lower(): the Arabic script has no case.
LowerChar(c) ==
    IF c \in UpperSet
    THEN LowerCase[CHOOSE i \in 1..Len(UpperCase) : UpperCase[i] = c]
    ELSE c

Lower(s) == [i \in 1..Len(s) |-> LowerChar(s[i])]

\* str.isupper(): a cased character exists and no cased character is
\* lower-case.
IsUpper(s) ==
    /\ \E i \in 1..Len(s) : s[i] \in UpperSet
    /\ \A i \in 1..Len(s) : s[i] \notin LowerSet

\* str.strip()
RECURSIVE LStrip(_)
LStrip(s) ==
    IF s # <<>> /\ Head(s) \in Whitespace THEN LStrip(Tail(s)) ELSE s

RECURSIVE RStrip(_)
RStrip(s) ==
    IF s # <<>> /\ s[Len(s)] \in Whitespace
    THEN RStrip(SubSeq(s, 1, Len(s) - 1))
    ELSE s

Strip(s) == RStrip(LStrip(s))

\* str.replace(a, b) for one-character a and b.
Replace(s, a, b) == [i \in 1..Len(s) |-> IF s[i] = a THEN b ELSE s[i]]

\* `c in s` for a character, s.startswith(p), s.endswith(one of cs).
HasChar(c, s) == \E i \in 1..Len(s) : s[i] = c
StartsWith(s, p) == Len(p) <= Len(s) /\ SubSeq(s, 1, Len(p)) = p
EndsWithAny(s, cs) == s # <<>> /\ s[Len(s)] \in cs

\* \d
DecimalDigits ==
    {"0", "1", "2", "3", "4", "5", "6", "7", "8", "9"} \cup ArabicIndicDigits

\* [IVX] under re.IGNORECASE
RomanDigits == {"I", "V", "X", "i", "v", "x"}

\* Length of the longest prefix of s made of characters of class.
LeadingRun(s, class) ==
    CHOOSE n \in 0..Len(s) :
        /\ \A i \in 1..n : s[i] \in class
        /\ (n < Len(s) => s[n + 1] \notin class)

\* Variant of PrefixedRe that accepts a line ending with the punctuation.
PrefixedRe_NoRest(s, class) ==
    LET n == LeadingRun(s, class)
    IN  /\ n >= 1
        /\ Len(s) >= n + 1
        /\ s[n + 1] \in {".", "-", ":"}

\* re.match(r'^<class>+[\.\-\:]\s*.+', s): a run of the class, one of the
\* three punctuation marks, optional white space, and at least one
\* character that is not a line break.
PrefixedRe(s, class) ==
    LET n == LeadingRun(s, class)
    IN  /\ n >= 1
        /\ Len(s) >= n + 2
        /\ s[n + 1] \in {".", "-", ":"}
        /\ \E i \in (n + 2)..Len(s) :
              /\ s[i] # NL
              /\ \A j \in (n + 2)..(i - 1) : s[j] \in Whitespace

\* re.match(r'^(<heads>).+(<stems>)', s) of main.py.
OrdinalRe(s) ==
    \E h \in 1..Len(OrdinalHeads), t \in 1..Len(OrdinalStems) :
        LET head == OrdinalHeads[h]
            stem == OrdinalStems[t]
        IN  /\ StartsWith(s, head)
            /\ \E i \in (Len(head) + 2)..(Len(s) - Len(stem) + 1) :
                  /\ SubSeq(s, i, i + Len(stem) - 1) = stem
                  /\ \A j \in (Len(head) + 1)..(i - 1) : s[j] # NL

\* `keyword.lower() in text` for some keyword of the list.
AnyKeywordIn(keywords, text) ==
    \E k \in 1..Len(keywords) : Contains(Lower(keywords[k]), text)

\* ------------------------------------------------------ heading classifiers
HeadingVariants == {"main", "sample_pdf", "main_docling_arabic"}

\* Variant of Rejected without the floor of three characters.
Rejected_NoFloor(v, text) == text = <<>> \/ Len(text) > 200

\* The first `if` of the classifiers, on the stripped line.
Rejected(v, text) ==
    \/ text = <<>>
    \/ Len(text) > 200
    \/ (v = "main_docling_arabic" /\ Len(text) < 3)

\* Variant of MainRules that also accepts a line in capitals.
MainRules_WithCaps(text) ==
    \/ \E k \in 1..Len(section_keywords) : Contains(section_keywords[k], text)
    \/ HasChar(":", text) /\ Len(text) < 100
    \/ IsUpper(text)

\* main.py: is_section_heading after the first `if`.
MainRules(text) ==
    LET line_clean == Replace(Replace(Lower(text), "ALEF", "ALEF"),
                              "ALEF_WITH_HAMZA_BELOW", "ALEF")
    IN  IF \E k \in 1..Len(section_keywords) :
               Contains(section_keywords[k], line_clean)
        THEN TRUE
        ELSE IF OrdinalRe(text) THEN TRUE
        ELSE IF HasChar(":", text) /\ Len(text) < 100 THEN TRUE
        ELSE FALSE

\* Number of characters of U+0600..U+06FF in the line.
ArabicCount(text) == Cardinality({i \in 1..Len(text) : text[i] \in ArabicBlock})

\* sample_pdf.py: is_likely_heading after the first `if`.
SampleRules(text) ==
    IF AnyKeywordIn(heading_keywords, Lower(text)) THEN TRUE
    ELSE IF PrefixedRe(text, DecimalDigits) THEN TRUE
    ELSE IF /\ 10 < Len(text) /\ Len(text) < 100
            /\ ArabicCount(text) > 3
            /\ ~EndsWithAny(text, {".", "ARABIC_COMMA", "ARABIC_SEMICOLON", "!"})
         THEN TRUE
    ELSE IF (HasChar(":", text) \/ HasChar("FULLWIDTH_COLON", text))
            /\ Len(text) < 150
         THEN TRUE
    ELSE IF Len(text) < 100 /\ IsUpper(text) /\ Len(text) > 5 THEN TRUE
    ELSE FALSE

\* main_docling_arabic.py: is_section_heading after the first `if`.
DoclingRules(text) ==
    IF AnyKeywordIn(section_indicators, Lower(text)) THEN TRUE
    ELSE IF PrefixedRe(text, DecimalDigits) THEN TRUE
    ELSE IF PrefixedRe(text, RomanDigits) THEN TRUE
    ELSE IF HasChar(":", text) /\ Len(text) < 120 THEN TRUE
    ELSE IF IsUpper(text) /\ Len(text) < 80 /\ Len(Split(text)) < 10 THEN TRUE
    ELSE FALSE

\* The value a classifier returns for a line.
IsHeading(v, raw) ==
    LET text == Strip(raw)
    IN  IF Rejected(v, text) THEN FALSE
        ELSE CASE v = "main" -> MainRules(text)
               [] v = "sample_pdf" -> SampleRules(text)
               [] v = "main_docling_arabic" -> DoclingRules(text)

\* A call of the classifier.
IsSectionHeading ==
    /\ pc = "classify"
    /\ is_heading' = IsHeading(variant, line)
    /\ pc' = "classified"
    /\ UNCHANGED <<variant, pages, chunk_size, overlap, chunks, sections,
                   enriched, current_section, idx, line, accumulatorVars,
                   docxVars, ingestVars>>
\* -------------------------------------------------- classifier input
\* White space only.
BlankLine ==
    <<" ", " ", "\t", " ">>

\* One character, a colon.
Colon ==
    <<":">>

\* Two characters with a colon.
ShortColon ==
    <<"a", ":">>

\* Three characters with a colon.
ThreeColon ==
    <<"a", "b", ":">>

\* A number and a full stop, nothing after.
NumberOnly ==
    <<"1", ".">>

\* The same with three characters.
NumberShort ==
    <<"1", "2", ".">>

\* A numbered line.
NumberedLine ==
    <<"1", ".", " ", "A", "i", "m", "s">>

\* A number and a colon.
NumberColon ==
    <<"1", ":">>

\* An English keyword in capitals.
Conclusion ==
    <<"C", "O", "N", "C", "L", "U", "S", "I", "O", "N">>

\* The same in mixed case, with white space around.
ConclusionMixed ==
    <<" ", " ", "C", "o", "n", "c", "l", "u", "s", "i", "o", "n", "\n">>

\* Five capitals.
Hello ==
    <<"H", "E", "L", "L", "O">>

\* Capitals, no keyword.
HelloWorld ==
    <<"H", "E", "L", "L", "O", " ", "W", "O", "R", "L", "D">>

\* Two capitals.
TwoCaps ==
    <<"A", "B">>

\* A line with a roman numeral.
RomanLine ==
    <<"I", "V", ".", " ", "R", "e", "s", "u", "l", "t", "s">>

\* The same in lower case.
RomanLower ==
    <<"i", "v", "-", "b">>

\* A sentence.
LatinSentence ==
    <<"h", "e", "l", "l", "o", " ", "w", "o", "r", "l", "d", ".">>

\* A keyword of main_docling_arabic.py only.
Summary ==
    <<"S", "u", "m", "m", "a", "r", "y">>

\* A French keyword with capital accented letters.
ResumeLine ==
    <<"R", "LATIN_CAPITAL_LETTER_E_WITH_ACUTE", "S", "U", "M",
        "LATIN_CAPITAL_LETTER_E_WITH_ACUTE", " ", "d", "u", " ", "t", "e",
        "x", "t", "e">>

\* A line with a fullwidth colon.
FullwidthColonLine ==
    <<"a", "b", "FULLWIDTH_COLON", "c", "d">>

\* Nine one-letter words in capitals.
NineWords ==
    <<"A", " ", "B", " ", "C", " ", "D", " ", "E", " ", "F", " ", "G", " ",
        "H", " ", "J">>

\* Ten one-letter words in capitals.
TenWords ==
    <<"A", " ", "B", " ", "C", " ", "D", " ", "E", " ", "F", " ", "G", " ",
        "H", " ", "J", " ", "K">>

\* A keyword line with white space around.
PaddedIntroduction ==
    <<" ", " ", "ALEF", "LAM", "MEEM", "QAF", "DAL", "MEEM", "TEH_MARBUTA",
        " ", "\t">>
\* s followed by filler up to n characters, and n capitals.
Pad(s, n) == s \o Filler(n - Len(s))
Caps(n) == [i \in 1..n |-> "A"]

\* A keyword and a colon, to be padded.
ChapterColon == ChapterWord \o <<":", SP>>

\* Lines around every threshold of the three classifiers, lines matching
\* one rule only, and lines matching none.
Lines ==
    {<<>>, BlankLine, Colon, ShortColon, ThreeColon, NumberOnly, NumberShort,
     NumberedLine, NumberColon, Conclusion, ConclusionMixed, Hello,
     HelloWorld, TwoCaps, RomanLine, RomanLower, LatinSentence, Summary,
     ResumeLine, FullwidthColonLine, NineWords, TenWords, PaddedIntroduction,
     UnitOneFunctions, Introduction, ChapterWord, PlainSentence, PlainPhrase,
     PlainPhraseComma, TenArabic, HamzaBelowSection, ArabicNumbered,
     ChapterOneFunctions, OtherSentence}
    \cup {Pad(<<":">>, n) : n \in {99, 100, 119, 120, 149, 150}}
    \cup {Caps(n) : n \in {5, 6, 79, 80, 99, 100}}
    \cup {Pad(ChapterColon, n) : n \in {200, 201, 250}}
    \cup {Filler(250)}

InitHeading ==
    /\ NotChunkingSections
    /\ NotReadingDocx
    /\ NotIngesting
    /\ variant \in HeadingVariants
    /\ line \in Lines
    /\ is_heading = FALSE
    /\ pages = <<>>
    /\ chunk_size = DefaultChunkSize
    /\ overlap = DefaultOverlap
    /\ chunks = <<>>
    /\ sections = <<>>
    /\ enriched = <<>>
    /\ current_section = NoneStr
    /\ idx = 0
    /\ pc = "classify"

NextHeading == IsSectionHeading

SpecHeading == InitHeading /\ [][NextHeading]_vars

\* ----------------------------------------------- classifiers: stated claims
\* The line without the white space around it.
Trimmed(s) ==
    LET kept == {i \in 1..Len(s) : s[i] \notin Whitespace}
    IN  IF kept = {} THEN <<>>
        ELSE [i \in 1..(SetMax(kept) - SetMin(kept) + 1) |-> s[SetMin(kept) + i - 1]]

Classified == pc = "classified"

CharsOf(t) == {t[i] : i \in 1..Len(t)}

HasColon(v, t) ==
    \/ ":" \in CharsOf(t)
    \/ (v = "sample_pdf" /\ "FULLWIDTH_COLON" \in CharsOf(t))

\* C12 as stated: whichever classifier ran, a line that after trimming is
\* empty, longer than 200 characters or shorter than 3 characters is not a
\* heading.
C12_RejectsOutOfBounds ==
    Classified =>
        LET t == Trimmed(line)
        IN  (t = <<>> \/ Len(t) > 200 \/ Len(t) < 3) => ~is_heading

\* C12 amended: every classifier returns False for a line that after
\* trimming is empty or longer than 200 characters; only
\* main_docling_arabic.py returns False for every line shorter than 3
\* characters, while main.py and sample_pdf.py return True for a line of 1
\* or 2 characters exactly when it contains a colon.
C12_CeilingAndDoclingFloor ==
    Classified =>
        LET t == Trimmed(line)
        IN  /\ (t = <<>> \/ Len(t) > 200) => ~is_heading
            /\ (variant = "main_docling_arabic" /\ Len(t) < 3) => ~is_heading
            /\ (variant # "main_docling_arabic" /\ Len(t) \in 1..2) =>
                  (is_heading <=> HasColon(variant, t))

C12_Witness ==
    /\ Classified
    /\ variant = "main_docling_arabic"
    /\ Trimmed(line) = <<"a", ":">>
    /\ ~is_heading

\* The conditions of the classifiers, each stated on the trimmed line.
KeywordsOf(v) ==
    CASE v = "main" -> section_keywords
      [] v = "sample_pdf" -> heading_keywords
      [] v = "main_docling_arabic" ->
            arabic_indicators \o english_indicators \o french_indicators

\* A keyword occurs in the line, letter case ignored (main.py: ALEF WITH
\* HAMZA BELOW read as ALEF).
KeywordMatch(v, t) ==
    LET folded == IF v = "main"
                  THEN Replace(Lower(t), "ALEF_WITH_HAMZA_BELOW", "ALEF")
                  ELSE Lower(t)
    IN  \E k \in 1..Len(KeywordsOf(v)) : Occurs(Lower(KeywordsOf(v)[k]), folded)

\* The line starts with characters of the class, then one of . - : and at
\* least one more character.
PrefixOf(class, t) ==
    \E d \in 1..(Len(t) - 2) :
        /\ \A i \in 1..d : t[i] \in class
        /\ t[d + 1] \in {".", "-", ":"}

NumberedPrefix(t) ==
    PrefixOf({"0", "1", "2", "3", "4", "5", "6", "7", "8", "9"}
                 \cup ArabicIndicDigits, t)

RomanPrefix(t) == PrefixOf({"I", "V", "X", "i", "v", "x"}, t)

ColonInShortLine(v, t) ==
    /\ HasColon(v, t)
    /\ Len(t) < (CASE v = "main" -> 100
                   [] v = "sample_pdf" -> 150
                   [] v = "main_docling_arabic" -> 120)

ShortAllCaps(v, t) ==
    /\ CharsOf(t) \cap UpperSet # {}
    /\ CharsOf(t) \cap LowerSet = {}
    /\ IF v = "sample_pdf" THEN 5 < Len(t) /\ Len(t) < 100
       ELSE Len(t) < 80 /\ WordCount(t) < 10

\* sample_pdf.py's rule for a short line of Arabic script.
ShortScriptLine(t) ==
    /\ 10 < Len(t) /\ Len(t) < 100
    /\ Cardinality({i \in 1..Len(t) : t[i] \in ArabicBlock}) >= 4
    /\ t[Len(t)] \notin {".", "ARABIC_COMMA", "ARABIC_SEMICOLON", "!"}

ListedCondition(v, t) ==
    CASE v = "main" -> KeywordMatch(v, t) \/ ColonInShortLine(v, t)
      [] v = "sample_pdf" ->
            \/ KeywordMatch(v, t)
            \/ NumberedPrefix(t)
            \/ ShortScriptLine(t)
            \/ ColonInShortLine(v, t)
            \/ ShortAllCaps(v, t)
      [] v = "main_docling_arabic" ->
            \/ KeywordMatch(v, t)
            \/ NumberedPrefix(t)
            \/ RomanPrefix(t)
            \/ ColonInShortLine(v, t)
            \/ ShortAllCaps(v, t)

\* The length bounds of the variant: at most 200 characters, and at least
\* 3 (main_docling_arabic.py) or 1 (main.py, sample_pdf.py).
WithinBounds(v, t) ==
    /\ Len(t) <= 200
    /\ Len(t) >= (IF v = "main_docling_arabic" THEN 3 ELSE 1)

C14_ExamplesEveryVariant ==
    Classified =>
        /\ line = UnitOneFunctions => is_heading
        /\ line = <<>> => ~is_heading
        /\ Len(line) = 250 => ~is_heading
        /\ line = Conclusion => is_heading

\* C14 amended: every classifier returns True for "<unit> <first>:
\* <functions>", False for the empty string and False for a line of 250
\* characters; "CONCLUSION" is a heading for is_likely_heading of
\* sample_pdf.py and is_section_heading of main_docling_arabic.py (where it
\* is a keyword), and not for is_section_heading of main.py.
C14_Examples ==
    Classified =>
        /\ line = UnitOneFunctions => is_heading
        /\ line = <<>> => ~is_heading
        /\ Len(line) = 250 => ~is_heading
        /\ line = Conclusion => (is_heading <=> variant # "main")

C14_Witness ==
    /\ Classified
    /\ variant = "sample_pdf"
    /\ line = Conclusion
    /\ is_heading

\* ------------------------------------------------------- pipeline input
\* The page of the end-to-end scenario: a heading, a sentence, an empty
\* line, a heading with a colon, a sentence.
ScenarioText ==
    <<"ALEF", "LAM", "MEEM", "QAF", "DAL", "MEEM", "TEH_MARBUTA", "\n",
        "NOON", "SAD", " ", "AIN", "ALEF", "DAL", "YEH", " ", "HEH", "NOON",
        "ALEF", ".", "\n", "\n", "ALEF", "LAM", "FEH", "SAD", "LAM", " ",
        "ALEF", "LAM", "ALEF_WITH_HAMZA_ABOVE", "WAW", "LAM", ":", " ",
        "ALEF", "LAM", "DAL", "WAW", "ALEF", "LAM", "\n", "NOON", "SAD", " ",
        "ALEF_WITH_MADDA_ABOVE", "KHAH", "REH", ".">>

\* White space only.
BlankText ==
    <<" ", " ", "\n", " ", "\t">>

\* The same heading twice, behind two different bullets.
BulletedDuplicates ==
    <<"BULLET", " ", "ALEF", "LAM", "MEEM", "QAF", "DAL", "MEEM",
        "TEH_MARBUTA", "\n", "NOON", "SAD", " ", "AIN", "ALEF", "DAL", "YEH",
        " ", "HEH", "NOON", "ALEF", ".", "\n", "-", " ", " ", "ALEF", "LAM",
        "MEEM", "QAF", "DAL", "MEEM", "TEH_MARBUTA">>

\* A heading with runs of white space inside.
SpacedHeading ==
    <<"ALEF", "LAM", "FEH", "SAD", "LAM", " ", " ", " ", "ALEF", "LAM",
        "ALEF_WITH_HAMZA_ABOVE", "WAW", "LAM", ":", "\t", "ALEF", "LAM",
        "DAL", "WAW", "ALEF", "LAM", "\n", "NOON", "SAD", " ",
        "ALEF_WITH_MADDA_ABOVE", "KHAH", "REH", ".">>

\* Lines the classifiers accept that have at most three characters.
ShortHeadings ==
    <<"FEH", "SAD", "LAM", "\n", "a", ":", "\n", "NOON", "SAD", " ",
        "ALEF_WITH_MADDA_ABOVE", "KHAH", "REH", ".">>

\* Headings behind a plus sign and behind an asterisk.
PlusBullets ==
    <<"+", " ", "ALEF", "LAM", "MEEM", "QAF", "DAL", "MEEM", "TEH_MARBUTA",
        "\n", "*", " ", "ALEF", "LAM", "KHAH", "ALEF", "TEH", "MEEM",
        "TEH_MARBUTA">>

\* Sentences only.
NoHeadingText ==
    <<"NOON", "SAD", " ", "ALEF_WITH_MADDA_ABOVE", "KHAH", "REH", ".", "\n",
        "h", "e", "l", "l", "o", " ", "w", "o", "r", "l", "d", ".">>

\* The scenario split over two pages.
FirstPageText ==
    <<"ALEF", "LAM", "MEEM", "QAF", "DAL", "MEEM", "TEH_MARBUTA", "\n",
        "NOON", "SAD", " ", "AIN", "ALEF", "DAL", "YEH", " ", "HEH", "NOON",
        "ALEF", ".">>

SecondPageText ==
    <<"ALEF", "LAM", "FEH", "SAD", "LAM", " ", "ALEF", "LAM",
        "ALEF_WITH_HAMZA_ABOVE", "WAW", "LAM", ":", " ", "ALEF", "LAM", "DAL",
        "WAW", "ALEF", "LAM", "\n", "NOON", "SAD", " ",
        "ALEF_WITH_MADDA_ABOVE", "KHAH", "REH", ".">>

\* Documents: the scenario, pages without text, headings behind bullets and
\* repeated, headings with white space inside, very short headings, no
\* heading at all, two pages.
Documents ==
    {<<[page |-> 1, text |-> ScenarioText]>>,
     <<[page |-> 1, text |-> <<>>]>>,
     <<[page |-> 1, text |-> BlankText]>>,
     <<[page |-> 1, text |-> <<>>], [page |-> 2, text |-> ScenarioText]>>,
     <<[page |-> 1, text |-> BulletedDuplicates]>>,
     <<[page |-> 1, text |-> SpacedHeading]>>,
     <<[page |-> 1, text |-> ShortHeadings]>>,
     <<[page |-> 1, text |-> PlusBullets]>>,
     <<[page |-> 1, text |-> NoHeadingText]>>,
     <<[page |-> 1, text |-> FirstPageText], [page |-> 2, text |-> SecondPageText]>>,
     <<[page |-> 1, text |-> BlankText], [page |-> 2, text |-> NoHeadingText]>>}
\* ------------------------------------------------------ section extractors
ExtractVariants == {"main", "sample_pdf"}

\* text.split('\n'): the pieces between line breaks, empty ones included.
RECURSIVE SplitLinesFrom(_, _, _)
SplitLinesFrom(t, i, piece) ==
    IF i > Len(t) THEN <<piece>>
    ELSE IF t[i] = NL THEN <<piece>> \o SplitLinesFrom(t, i + 1, <<>>)
    ELSE SplitLinesFrom(t, i + 1, Append(piece, t[i]))

SplitLines(t) == SplitLinesFrom(t, 1, <<>>)

\* "\n".join(texts)
RECURSIVE JoinLines(_)
JoinLines(texts) ==
    IF texts = <<>> THEN <<>>
    ELSE IF Len(texts) = 1 THEN texts[1]
    ELSE texts[1] \o <<NL>> \o JoinLines(Tail(texts))

\* The character class of the bullet pattern.
Bullets(v) ==
    IF v = "main" THEN {"BULLET", "-", "*"} ELSE {"BULLET", "-", "*", "+"}

\* re.sub(r'^[<bullets>]\s*', '', line)
SubBullet(v, s) ==
    IF s # <<>> /\ Head(s) \in Bullets(v)
    THEN SubSeq(s, 2 + LeadingRun(Tail(s), Whitespace), Len(s))
    ELSE s

\* Variant of SubWhitespace that leaves the text as it is.
SubWhitespace_Keep(s) == s

\* re.sub(r'\s+', ' ', s): the text up to the first run of white space, a
\* space, and the rest treated likewise.
RECURSIVE SubWhitespace(_)
SubWhitespace(s) ==
    LET ws == {i \in 1..Len(s) : s[i] \in Whitespace}
    IN  IF ws = {} THEN s
        ELSE LET p == CHOOSE i \in ws : \A j \in ws : i <= j
                 rest == SubSeq(s, p, Len(s))
             IN  SubSeq(s, 1, p - 1) \o <<SP>> \o
                     SubWhitespace(SubSeq(rest, 1 + LeadingRun(rest, Whitespace),
                                          Len(rest)))

\* The section made of an accepted line.
CleanSection(v, s) ==
    IF v = "main" THEN Strip(SubWhitespace(SubBullet(v, s)))
    ELSE Strip(SubBullet(v, s))

\* Variant of ExtractFromLines that lists the sections last to first.
RECURSIVE ExtractFromLines_Reversed(_, _)
ExtractFromLines_Reversed(v, lines) ==
    IF lines = <<>> THEN <<>>
    ELSE LET stripped == Strip(lines[1])
             section == CleanSection(v, stripped)
             rest == ExtractFromLines_Reversed(v, Tail(lines))
         IN  IF IsHeading(v, stripped) /\ section # <<>> /\ Len(section) > 3
             THEN rest \o <<section>>
             ELSE rest

\* `for line in lines`: the sections appended for the accepted lines.
RECURSIVE ExtractFromLines(_, _)
ExtractFromLines(v, lines) ==
    IF lines = <<>> THEN <<>>
    ELSE LET stripped == Strip(lines[1])
             section == CleanSection(v, stripped)
             rest == ExtractFromLines(v, Tail(lines))
         IN  IF IsHeading(v, stripped) /\ section # <<>> /\ Len(section) > 3
             THEN <<section>> \o rest
             ELSE rest

\* main.py, extract_sections_from_pages: one iteration of `for page in pages`.
ExtractSectionsPage ==
    /\ pc = "extract_loop"
    /\ idx < Len(pages)
    /\ sections' = sections \o
                       ExtractFromLines(variant, SplitLines(pages[idx + 1].text))
    /\ idx' = idx + 1
    /\ UNCHANGED <<variant, pages, chunk_size, overlap, chunks, enriched,
                   current_section, pc, accumulatorVars, classifierVars,
                   docxVars, ingestVars>>

\* main.py, extract_sections_from_pages: `return sections`.
ExtractSectionsReturn ==
    /\ pc = "extract_loop"
    /\ idx = Len(pages)
    /\ pc' = "extract_done"
    /\ UNCHANGED <<variant, pages, chunk_size, overlap, chunks, sections,
                   enriched, current_section, idx, accumulatorVars,
                   classifierVars, docxVars, ingestVars>>

\* sample_pdf.py: extract_sections_from_text on the joined page texts.
ExtractSectionsFromText ==
    /\ pc = "extract_text"
    /\ LET all_text == JoinLines([i \in 1..Len(pages) |-> pages[i].text])
       IN  sections' = ExtractFromLines(variant, SplitLines(all_text))
    /\ pc' = "extract_done"
    /\ UNCHANGED <<variant, pages, chunk_size, overlap, chunks, enriched,
                   current_section, idx, accumulatorVars, classifierVars,
                   docxVars, ingestVars>>

\* --------------------------------------------------------------- pipeline
\* The call of the chunker after the extraction of the sections.
CreateChunks ==
    /\ pc = "extract_done"
    /\ chunks' = <<>>
    /\ idx' = 0
    /\ pc' = "chunk_loop"
    /\ UNCHANGED <<variant, pages, chunk_size, overlap, sections, enriched,
                   current_section, accumulatorVars, classifierVars, docxVars,
                   ingestVars>>

\* The call of the assignment with the chunks and the sections.
AssignSections ==
    /\ pc = "chunk_done"
    /\ pc' = "assign_start"
    /\ UNCHANGED <<variant, pages, chunk_size, overlap, chunks, sections,
                   enriched, current_section, idx, accumulatorVars,
                   classifierVars, docxVars, ingestVars>>

\* The configuration of the scripts, and one with windows of two words.
Configurations ==
    {[chunk_size |-> DefaultChunkSize, overlap |-> DefaultOverlap],
     [chunk_size |-> 2, overlap |-> 1]}

InitPipeline ==
    /\ NotRunning
    /\ variant \in ExtractVariants
    /\ pages \in Documents
    /\ \E c \in Configurations :
          /\ chunk_size = c.chunk_size
          /\ overlap = c.overlap
    /\ chunks = <<>>
    /\ sections = <<>>
    /\ enriched = <<>>
    /\ current_section = NoneStr
    /\ idx = 0
    /\ pc = IF variant = "main" THEN "extract_loop" ELSE "extract_text"

NextPipeline ==
    \/ ExtractSectionsPage
    \/ ExtractSectionsReturn
    \/ ExtractSectionsFromText
    \/ CreateChunks
    \/ ChunkTextPagesStep
    \/ ChunkTextPagesReturn
    \/ AssignSections
    \/ AssignNoSections
    \/ AssignBegin
    \/ AssignChunk
    \/ AssignReturn

SpecPipeline == InitPipeline /\ [][NextPipeline]_vars

\* ------------------------------------ extraction, pipeline: stated claims
\* The positions of the line breaks of a text, the k-th of them (0 before
\* the text, one past its end after the last), and the k-th line.
Breaks(t) == {i \in 1..Len(t) : t[i] = NL}

BreakAt(t, k) ==
    IF k = 0 THEN 0
    ELSE IF k > Cardinality(Breaks(t)) THEN Len(t) + 1
    ELSE CHOOSE i \in Breaks(t) : Cardinality({j \in Breaks(t) : j < i}) = k - 1

LineAt(t, k) == SubSeq(t, BreakAt(t, k - 1) + 1, BreakAt(t, k) - 1)

LineCount(t) == Cardinality(Breaks(t)) + 1

\* The trimmed lines of the pages, pages in input order, lines in text order.
RECURSIVE TrimmedLines(_)
TrimmedLines(entries) ==
    IF entries = <<>> THEN <<>>
    ELSE [k \in 1..LineCount(entries[1].text) |-> Trimmed(LineAt(entries[1].text, k))]
             \o TrimmedLines(Tail(entries))

\* Those the variant's classifier accepts.
AcceptedLines ==
    LET Accepts(l) == IsHeading(variant, l)
    IN  SelectSeq(TrimmedLines(pages), Accepts)

\* The line without a leading bullet marker and the white space after it.
Unbulleted(marks, t) ==
    IF t # <<>> /\ t[1] \in marks
    THEN LET rest == {i \in 2..Len(t) : t[i] \notin Whitespace}
         IN  IF rest = {} THEN <<>> ELSE SubSeq(t, SetMin(rest), Len(t))
    ELSE t

\* The line with every run of white space replaced by one space.
Collapsed(t) ==
    LET First(i) == t[i] \notin Whitespace \/ i = 1 \/ t[i - 1] \notin Whitespace
        at == SelectSeq([i \in 1..Len(t) |-> i], First)
    IN  [k \in 1..Len(at) |-> IF t[at[k]] \in Whitespace THEN SP ELSE t[at[k]]]

MarksOf(v) ==
    IF v = "main" THEN {"BULLET", "-", "*"} ELSE {"BULLET", "-", "*", "+"}

Extracted == pc \notin {"extract_loop", "extract_text"}

\* C15 as stated: the extractor returns one entry per accepted line, in
\* encounter order, duplicates kept: the line with its leading bullet
\* marker stripped and its runs of white space collapsed.
C15_OneEntryPerAcceptedLine ==
    Extracted =>
        sections = [k \in 1..Len(AcceptedLines) |->
                        Collapsed(Unbulleted(MarksOf(variant), AcceptedLines[k]))]

\* C15 amended: the extractor returns, in encounter order and with
\* duplicates kept, one entry per accepted line whose entry has more than 3
\* characters; the entry is the line with its leading bullet marker stripped
\* (one of BULLET - * in main.py, one of BULLET - * + in sample_pdf.py) and,
\* in main.py only, its runs of white space collapsed.
C15_EntriesLongerThanThree ==
    Extracted =>
        LET Entry(l) == IF variant = "main"
                        THEN Collapsed(Unbulleted({"BULLET", "-", "*"}, l))
                        ELSE Unbulleted({"BULLET", "-", "*", "+"}, l)
            Long(s) == Len(s) > 3
        IN  sections = SelectSeq([k \in 1..Len(AcceptedLines) |->
                                      Entry(AcceptedLines[k])], Long)

C15_Witness ==
    /\ pc = "extract_done"
    /\ pages = <<[page |-> 1, text |-> BulletedDuplicates]>>
    /\ Len(AcceptedLines) = 2
    /\ sections = <<Introduction, Introduction>>

ScenarioRun ==
    /\ pages = <<[page |-> 1, text |-> ScenarioText]>>
    /\ chunk_size = DefaultChunkSize
    /\ overlap = DefaultOverlap

\* C16: for the scenario page with size 600 and overlap 100 the extraction
\* returns exactly the introduction heading and the chapter heading in that
\* order, the chunker returns one chunk of page 1, and the assignment tags
\* it with the introduction heading, the first of the two headings that both
\* occur in the chunk's prefix.
C16_Scenario ==
    ScenarioRun =>
        /\ Extracted => sections = <<Introduction, ChapterOneFunctions>>
        /\ pc \in {"chunk_done", "assign_start", "assign_loop", "assign_done"} =>
              /\ Len(chunks) = 1
              /\ ChunkPageNo(chunks[1]) = 1
        /\ pc = "assign_done" =>
              /\ Len(enriched) = 1
              /\ enriched[1].meta.page = 1
              /\ MatchingIdx(1) = {1, 2}
              /\ AssignedSection(1) = Introduction

C16_Witness ==
    /\ ScenarioRun
    /\ pc = "assign_done"
    /\ sections = <<Introduction, ChapterOneFunctions>>
    /\ Len(enriched) = 1
    /\ AssignedSection(1) = Introduction

Blank(t) == \A i \in 1..Len(t) : t[i] \in Whitespace

\* C17 (states): in main.py with a valid configuration no step raises; no
\* line of a page without text or with white space only is a heading and
\* the page has no chunk; a document of such pages has no section; and the
\* assignment over no chunks returns no chunk.
C17_NothingFromBlankPages ==
    (variant = "main" /\ ValidConfig) =>
        /\ pc # "ValueError"
        /\ \A i \in 1..Len(pages) :
              Blank(pages[i].text) =>
                  /\ \A k \in 1..LineCount(pages[i].text) :
                        ~IsHeading(variant, LineAt(pages[i].text, k))
                  /\ ChunksOfPage(pages[i].page) = <<>>
        /\ (\A i \in 1..Len(pages) : Blank(pages[i].text)) => sections = <<>>
        /\ (pc = "assign_done" /\ chunks = <<>>) => enriched = <<>>

\* C17 (steps): the extraction step of such a page adds no section.
C17_BlankPageAddsNoSection ==
    (variant = "main" /\ pc = "extract_loop" /\ idx < Len(pages)
        /\ Blank(pages[idx + 1].text))
      => sections' = sections

\* C17: text without content never raises and yields nothing.
C17_BlankTextYieldsNothing ==
    []C17_NothingFromBlankPages /\ [][C17_BlankPageAddsNoSection]_vars

C17_Witness ==
    /\ pc = "assign_done"
    /\ variant = "main"
    /\ ValidConfig
    /\ pages = <<[page |-> 1, text |-> BlankText]>>
    /\ sections = <<>>
    /\ chunks = <<>>
    /\ enriched = <<>>

\* ----------------------------------------------------- _process_docx_file
\* clean_text: line breaks to spaces, runs of white space to one space,
\* white space around removed.
CleanText(s) ==
    IF s = <<>> THEN <<>> ELSE Strip(SubWhitespace(Replace(s, NL, SP)))

\* The dict appended to text_chunks.
TextChunk(text, page) == [text |-> CleanText(text), page |-> page]

\* One iteration of `for para_idx, paragraph in enumerate(doc.paragraphs)`.
ProcessParagraph ==
    /\ pc = "docx_loop"
    /\ idx < Len(paragraphs)
    /\ idx' = idx + 1
    /\ LET text == Strip(paragraphs[idx + 1])
           cleaned_text == CleanText(text)
           joined == IF current_text # <<>>
                     THEN current_text \o <<SP>> \o cleaned_text
                     ELSE cleaned_text
       IN  IF text = <<>>
           THEN UNCHANGED <<chunks, sections, current_text, current_page>>
           ELSE IF IsHeading("main_docling_arabic", cleaned_text)
           THEN /\ IF current_text # <<>> /\ Len(current_text) > 30
                   THEN /\ chunks' = Append(chunks, TextChunk(current_text, current_page))
                        /\ current_text' = <<>>
                   ELSE UNCHANGED <<chunks, current_text>>
                /\ sections' = Append(sections, cleaned_text)
                /\ UNCHANGED current_page
           ELSE /\ IF Len(joined) > 600
                   THEN /\ chunks' = Append(chunks, TextChunk(joined, current_page))
                        /\ current_text' = <<>>
                        /\ current_page' = current_page + 1
                   ELSE /\ current_text' = joined
                        /\ UNCHANGED <<chunks, current_page>>
                /\ UNCHANGED sections
    /\ UNCHANGED <<variant, pages, chunk_size, overlap, enriched,
                   current_section, pc, chunk_words, current_chunk,
                   classifierVars, paragraphs,
                   ingestVars>>

\* The remaining text after the last paragraph, and the call of
\* assign_sections_to_chunks.
AddRemainingText ==
    /\ pc = "docx_loop"
    /\ idx = Len(paragraphs)
    /\ chunks' = IF current_text # <<>> /\ Len(current_text) > 30
                 THEN Append(chunks, TextChunk(current_text, current_page))
                 ELSE chunks
    /\ pc' = "assign_start"
    /\ UNCHANGED <<variant, pages, chunk_size, overlap, sections, enriched,
                   current_section, idx, accumulatorVars, classifierVars,
                   docxVars, ingestVars>>

\* ------------------------------------------------- _process_docx_file input
MaxParagraphs == 3

\* A body paragraph of n characters: the letter tells its position in the
\* document.
Body(i, n) == [k \in 1..n |-> Alphabet[((i - 1) % Len(Alphabet)) + 1]]

\* A body paragraph that mentions a heading: right behind a short body, and
\* behind more characters than the assignment inspects.
Mention(i) == Body(i, 31) \o <<SP>> \o Hello
LateMention(i) == Body(i, 601) \o <<SP>> \o Hello

\* The paragraphs that can stand at position i: two headings, a paragraph of
\* white space, body paragraphs below and above the threshold of 30
\* characters, one that mentions the second heading, and one longer than
\* 600 characters that mentions it at its end.
ParagraphsAt(i) ==
    {Introduction, Hello, BlankLine, Mention(i), LateMention(i)}
    \cup {Body(i, n) : n \in {5, 31}}

ParagraphLists ==
    UNION {{q \in [1..n -> UNION {ParagraphsAt(i) : i \in 1..n}] :
                \A i \in 1..n : q[i] \in ParagraphsAt(i)} :
           n \in 1..MaxParagraphs}

InitDocx ==
    /\ NotChunkingSections
    /\ NotClassifying
    /\ NotIngesting
    /\ variant = "main_docling_arabic"
    /\ paragraphs \in ParagraphLists
    /\ current_text = <<>>
    /\ pages = <<>>
    /\ chunk_size = DefaultChunkSize
    /\ overlap = DefaultOverlap
    /\ chunks = <<>>
    /\ sections = <<>>
    /\ enriched = <<>>
    /\ current_section = NoneStr
    /\ idx = 0
    /\ pc = "docx_loop"

NextDocx ==
    \/ ProcessParagraph
    \/ AddRemainingText
    \/ AssignNoSections
    \/ AssignBegin
    \/ AssignChunk
    \/ AssignReturn

SpecDocx == InitDocx /\ [][NextDocx]_vars

\* -------------------------------------- _process_docx_file: stated claims
IsHeadingParagraph(i) ==
    IsHeading("main_docling_arabic", CleanText(Strip(paragraphs[i])))

\* Text of body paragraph i is part of the text t.
HoldsTextOf(t, i) ==
    /\ ~Blank(paragraphs[i])
    /\ ~IsHeadingParagraph(i)
    /\ \E k \in 1..Len(t) : t[k] = paragraphs[i][1]

\* C20: no chunk holds text of a paragraph before a heading paragraph
\* together with text of a paragraph after it (the accumulated text having
\* been saved and the accumulator emptied at the heading).
C20_HeadingSeparatesChunks ==
    \A c \in 1..Len(chunks) :
        \A i, h, j \in 1..Len(paragraphs) :
            (i < h /\ h < j /\ IsHeadingParagraph(h)) =>
                ~(HoldsTextOf(chunks[c].text, i) /\ HoldsTextOf(chunks[c].text, j))

\* ------------------------------------------------------- /ingest handlers
\* The handlers of main.py, sample_pdf.py and main_docling_arabic.py.  What
\* the libraries do with the upload (OCR, Docling, PyPDF2, python-docx) is
\* the environment's choice; None and [] are both written <<>>, the handlers
\* testing the page lists for truth only.
IngestVariants == {"main", "sample_pdf", "main_docling_arabic"}

Success(m, n) ==
    [success |-> TRUE, method |-> m, error |-> "", total_chunks |-> n]

Failure(e) ==
    [success |-> FALSE, method |-> "", error |-> e, total_chunks |-> 0]

Attempt(stage, outcome) == [stage |-> stage, outcome |-> outcome]

LastStage == IF attempts = <<>> THEN "" ELSE attempts[Len(attempts)].stage

\* The pages the text extractors keep: those with text; extract_with_ocr of
\* main.py stores the text stripped.
ExtractedPages(v, doc) ==
    [i \in 1..Len(doc) |->
        [page |-> doc[i].page,
         text |-> IF v = "main" THEN Strip(doc[i].text) ELSE doc[i].text]]

OcrDocuments ==
    {d \in Documents : \A i \in 1..Len(d) : Strip(d[i].text) # <<>>}

\* `return {...}`: the response, and what has become of the temporary file.
Return(r, file) ==
    /\ response' = r
    /\ tmp_file' = file
    /\ pc' = "returned"

\* `os.unlink(pdf_path)`, and `if os.path.exists(pdf_path): os.unlink(...)`.
Unlinked == "deleted"

\* main.py, ingest: the upload is written to a temporary file.
MainIngest ==
    /\ pc = "ingest"
    /\ variant = "main"
    /\ tmp_file' = "exists"
    /\ pc' = "extract_with_ocr"
    /\ UNCHANGED <<variant, pages, chunk_size, overlap, chunks, sections,
                   enriched, current_section, idx, accumulatorVars,
                   classifierVars, docxVars, response, attempts, method,
                   result>>

\* main.py, ingest: `pages = extract_with_ocr(pdf_path)`, which returns None
\* when the libraries are missing or fail, and `if not pages: return {...}`.
ExtractWithOcr ==
    /\ pc = "extract_with_ocr"
    /\ \E doc \in OcrDocuments \cup {<<>>} :
          /\ pages' = ExtractedPages(variant, doc)
          /\ attempts' = Append(attempts,
                                Attempt("ocr", IF doc = <<>> THEN "no_pages"
                                               ELSE "ok"))
          /\ IF doc = <<>>
             THEN /\ response' = Failure("OCR extraction failed")
                  /\ pc' = "returned"
             ELSE /\ pc' = "extract_loop"
                  /\ UNCHANGED response
    /\ UNCHANGED <<variant, chunk_size, overlap, chunks, sections, enriched,
                   current_section, idx, accumulatorVars, classifierVars,
                   docxVars, tmp_file, method, result>>

\* main.py, ingest: `os.unlink(pdf_path)` and the success response.
MainReturn ==
    /\ pc = "assign_done"
    /\ variant = "main"
    /\ Return(Success("ocr_tesseract", Len(enriched)), Unlinked)
    /\ UNCHANGED <<variant, pages, chunk_size, overlap, chunks, sections,
                   enriched, current_section, idx, accumulatorVars,
                   classifierVars, docxVars, attempts, method, result>>

\* sample_pdf.py, ingest: the temporary file, `method = "unknown"`, and the
\* test of use_ocr.
SampleIngest ==
    /\ pc = "ingest"
    /\ variant = "sample_pdf"
    /\ tmp_file' = "exists"
    /\ method' = "unknown"
    /\ \E use_ocr \in BOOLEAN :
          pc' = IF use_ocr THEN "sample_ocr" ELSE "sample_docling"
    /\ UNCHANGED <<variant, pages, chunk_size, overlap, chunks, sections,
                   enriched, current_section, idx, accumulatorVars,
                   classifierVars, docxVars, response, attempts, result>>

\* sample_pdf.py, ingest: the OCR block.  The imports or convert_from_path
\* raise before `text_pages = []`; image_to_string raises for some image
\* after k pages have been appended; or the loop ends and method is set.
SampleOcr ==
    /\ pc = "sample_ocr"
    /\ \E doc \in OcrDocuments \cup {<<>>} :
       \E outcome \in {"ImportError", "raised", "ok"} :
       \E k \in 0..Len(doc) :
          /\ outcome = "ImportError" => k = 0
          /\ outcome = "ok" => k = Len(doc)
          /\ pages' = ExtractedPages(variant, SubSeq(doc, 1, k))
          /\ method' = IF outcome = "ok" THEN "ocr" ELSE method
          /\ attempts' = Append(attempts, Attempt("ocr", outcome))
    /\ pc' = "sample_docling"
    /\ UNCHANGED <<variant, chunk_size, overlap, chunks, sections, enriched,
                   current_section, idx, accumulatorVars, classifierVars,
                   docxVars, tmp_file, response, result>>

\* The chunks of Docling's HybridChunker as sample_pdf.py keeps them.
SampleDoclingChunks ==
    {<<>>,
     <<[text |-> Introduction, meta |-> [page |-> NonePage]]>>,
     <<[text |-> Introduction, meta |-> [page |-> 1]],
       [text |-> PlainSentence, meta |-> [page |-> 2]]>>}

\* sample_pdf.py, ingest: the Docling block, entered `if not text_pages`.
\* With a document the sections come from its markdown export and the
\* chunks from the chunker, and assign_sections_to_chunks is called; an
\* exception anywhere in the block is printed and the handler goes on.
SampleDocling ==
    /\ pc = "sample_docling"
    /\ IF pages # <<>>
       THEN /\ pc' = "sample_pypdf2"
            /\ UNCHANGED <<chunks, sections, attempts, result>>
       ELSE \E outcome \in {"raised", "no_document", "ok"} :
               /\ attempts' = Append(attempts, Attempt("docling", outcome))
               /\ IF outcome = "ok"
                  THEN /\ \E full_text \in {ScenarioText, NoHeadingText} :
                             sections' = ExtractFromLines(variant,
                                                          SplitLines(full_text))
                       /\ chunks' \in SampleDoclingChunks
                       /\ result' = [stage |-> "docling", document |-> TRUE]
                       /\ pc' = "assign_start"
                  ELSE /\ pc' = "sample_pypdf2"
                       /\ UNCHANGED <<chunks, sections, result>>
    /\ UNCHANGED <<variant, pages, chunk_size, overlap, enriched,
                   current_section, idx, accumulatorVars, classifierVars,
                   docxVars, tmp_file, response, method>>

\* sample_pdf.py, ingest: the PyPDF2 block, entered `if not text_pages`, and
\* the test `if text_pages`; without pages the `finally` clause deletes the
\* file and the failure response is returned.
SamplePyPdf2 ==
    /\ pc = "sample_pypdf2"
    /\ \E doc \in OcrDocuments \cup {<<>>} :
          LET text_pages == IF pages # <<>> THEN pages
                            ELSE ExtractedPages(variant, doc)
          IN  /\ pages # <<>> => doc = <<>>
              /\ pages' = text_pages
              /\ IF pages # <<>>
                 THEN UNCHANGED <<method, attempts>>
                 ELSE /\ method' = "pypdf2"
                      /\ attempts' = Append(attempts,
                                            Attempt("pypdf2",
                                                    IF doc = <<>> THEN "no_pages"
                                                    ELSE "ok"))
              /\ IF text_pages # <<>>
                 THEN /\ pc' = "extract_text"
                      /\ UNCHANGED <<tmp_file, response>>
                 ELSE Return(Failure("Failed to extract document"), Unlinked)
    /\ UNCHANGED <<variant, chunk_size, overlap, chunks, sections, enriched,
                   current_section, idx, accumulatorVars, classifierVars,
                   docxVars, result>>

\* sample_pdf.py, ingest: `os.unlink(pdf_path)` and the success response, of
\* the Docling block ("docling") or of the block `if text_pages` (method).
SampleReturn ==
    /\ pc = "assign_done"
    /\ variant = "sample_pdf"
    /\ Return(Success(IF result.document THEN "docling" ELSE method,
                      Len(enriched)),
              Unlinked)
    /\ UNCHANGED <<variant, pages, chunk_size, overlap, chunks, sections,
                   enriched, current_section, idx, accumulatorVars,
                   classifierVars, docxVars, attempts, method, result>>

\* main_docling_arabic.py, ingest: the file type decides the branch; the
\* DOCX and the PDF branch write the upload to a temporary file.
DoclingIngest ==
    /\ pc = "ingest"
    /\ variant = "main_docling_arabic"
    /\ \E kind \in {"docx", "pdf", "other"} :
          CASE kind = "docx" -> /\ tmp_file' = "exists"
                                /\ pc' = "docx_open"
                                /\ UNCHANGED response
            [] kind = "pdf" -> /\ tmp_file' = "exists"
                               /\ pc' = "import_docling"
                               /\ UNCHANGED response
            [] kind = "other" -> Return(Failure("Unsupported file type"),
                                        tmp_file)
    /\ UNCHANGED <<variant, pages, chunk_size, overlap, chunks, sections,
                   enriched, current_section, idx, accumulatorVars,
                   classifierVars, docxVars, attempts, method, result>>

\* The documents python-docx reads for the handler.
IngestParagraphLists ==
    {<<>>, <<Introduction, Body(2, 31)>>, <<Body(1, 5)>>}

\* _process_docx_file: the import and `doc = Document(docx_path)`.  The
\* function catches every exception and returns a failure response, after
\* which the handler deletes the file and returns that response.
OpenDocx ==
    /\ pc = "docx_open"
    /\ \E outcome \in {"ImportError", "raised", "ok"} :
          /\ attempts' = Append(attempts, Attempt("docx", outcome))
          /\ CASE outcome = "ImportError" ->
                    /\ Return(Failure("DOCX processing library not available"),
                              Unlinked)
                    /\ UNCHANGED <<paragraphs, idx>>
               [] outcome = "raised" ->
                    /\ Return(Failure("DOCX processing failed"), Unlinked)
                    /\ UNCHANGED <<paragraphs, idx>>
               [] outcome = "ok" ->
                    /\ paragraphs' \in IngestParagraphLists
                    /\ idx' = 0
                    /\ pc' = "docx_loop"
                    /\ UNCHANGED <<tmp_file, response>>
    /\ UNCHANGED <<variant, pages, chunk_size, overlap, chunks, sections,
                   enriched, current_section, accumulatorVars, classifierVars,
                   current_text, method, result>>

\* _process_docx_file: the success response; ingest: `os.unlink(docx_path)`
\* and `return result`.
DocxReturn ==
    /\ pc = "assign_done"
    /\ variant = "main_docling_arabic"
    /\ LastStage = "docx"
    /\ Return(Success("docx_processing", Len(enriched)), Unlinked)
    /\ UNCHANGED <<variant, pages, chunk_size, overlap, chunks, sections,
                   enriched, current_section, idx, accumulatorVars,
                   classifierVars, docxVars, attempts, method, result>>

\* main_docling_arabic.py, ingest, PDF branch: the imports of docling and the
\* configuration of the primary pipeline, under the outer `try`: an
\* ImportError or another exception reaches the outer handlers, which delete
\* the file.
ImportDocling ==
    /\ pc = "import_docling"
    /\ \E outcome \in {"ImportError", "raised", "ok"} :
          CASE outcome = "ImportError" ->
                  Return(Failure("Missing dependencies"), Unlinked)
            [] outcome = "raised" -> Return(Failure("str(e)"), Unlinked)
            [] outcome = "ok" -> /\ pc' = "primary"
                                 /\ UNCHANGED <<tmp_file, response>>
    /\ UNCHANGED <<variant, pages, chunk_size, overlap, chunks, sections,
                   enriched, current_section, idx, accumulatorVars,
                   classifierVars, docxVars, attempts, method, result>>

\* The conversions of the PDF branch: the primary pipeline, the OCR-only
\* pipeline with and without max_num_pages, the ultra-minimal pipeline.
ConverterStages ==
    {"primary", "minimal_max_num_pages", "minimal", "ultra_minimal"}

\* What a conversion can do: return, raise, and (the call with
\* max_num_pages) raise TypeError.
Outcomes(stage) ==
    IF stage = "minimal_max_num_pages" THEN {"ok", "raised", "TypeError"}
    ELSE {"ok", "raised"}

\* Variant of NextStage that goes from the primary pipeline to the
\* ultra-minimal one.
NextStage_SkipsMinimal(stage, outcome) ==
    CASE stage = "primary" -> "ultra_minimal"
      [] stage = "minimal_max_num_pages" ->
            IF outcome = "TypeError" THEN "minimal" ELSE "ultra_minimal"
      [] stage = "minimal" -> "ultra_minimal"
      [] stage = "ultra_minimal" -> "alternative"

\* The nesting of the `try` statements: where the handler goes when the
\* conversion of a stage raises.
NextStage(stage, outcome) ==
    CASE stage = "primary" -> "minimal_max_num_pages"
      [] stage = "minimal_max_num_pages" ->
            IF outcome = "TypeError" THEN "minimal" ELSE "ultra_minimal"
      [] stage = "minimal" -> "ultra_minimal"
      [] stage = "ultra_minimal" -> "alternative"

\* One `result = ....convert(pdf_path)` and its `except` clause.
Convert ==
    /\ pc \in ConverterStages
    /\ \E outcome \in Outcomes(pc) :
          /\ attempts' = Append(attempts, Attempt(pc, outcome))
          /\ IF outcome = "ok"
             THEN /\ \E document \in BOOLEAN :
                        result' = [stage |-> pc, document |-> document]
                  /\ pc' = "check_result"
             ELSE /\ pc' = NextStage(pc, outcome)
                  /\ UNCHANGED result
    /\ UNCHANGED <<variant, pages, chunk_size, overlap, chunks, sections,
                   enriched, current_section, idx, accumulatorVars,
                   classifierVars, docxVars, tmp_file, response, method>>

\* The paragraphs _process_with_alternative_method keeps (longer than 30
\* characters) or the pages it reads by OCR, as text_chunks.
AlternativeChunks ==
    {<<[text |-> Body(1, 31), page |-> 1]>>,
     <<[text |-> Body(1, 31), page |-> 1],
       [text |-> Introduction \o <<SP>> \o Body(2, 31), page |-> 2]>>}

\* _process_with_alternative_method: it catches every exception and returns
\* a failure response, returns one when no text was found, and calls
\* assign_sections_to_chunks otherwise; ingest returns its response.
ProcessWithAlternativeMethod ==
    /\ pc = "alternative"
    /\ \E outcome \in {"ImportError", "raised", "no_text", "ok"} :
          /\ attempts' = Append(attempts, Attempt("alternative", outcome))
          /\ CASE outcome = "ImportError" ->
                    /\ Return(Failure("Alternative processing method not available"),
                              tmp_file)
                    /\ UNCHANGED <<chunks, sections>>
               [] outcome = "raised" ->
                    /\ Return(Failure("Alternative processing failed"),
                              tmp_file)
                    /\ UNCHANGED <<chunks, sections>>
               [] outcome = "no_text" ->
                    /\ Return(Failure("Could not extract any text from PDF"),
                              tmp_file)
                    /\ UNCHANGED <<chunks, sections>>
               [] outcome = "ok" ->
                    /\ chunks' \in AlternativeChunks
                    /\ sections' \in {<<>>, <<Introduction>>}
                    /\ pc' = "assign_start"
                    /\ UNCHANGED <<tmp_file, response>>
    /\ UNCHANGED <<variant, pages, chunk_size, overlap, enriched,
                   current_section, idx, accumulatorVars, classifierVars,
                   docxVars, method, result>>

\* _process_with_alternative_method: the success response, which ingest
\* returns.
AlternativeReturn ==
    /\ pc = "assign_done"
    /\ variant = "main_docling_arabic"
    /\ LastStage = "alternative"
    /\ Return(Success("alternative_pdf_processing", Len(enriched)), tmp_file)
    /\ UNCHANGED <<variant, pages, chunk_size, overlap, chunks, sections,
                   enriched, current_section, idx, accumulatorVars,
                   classifierVars, docxVars, attempts, method, result>>

\* `if not result or not result.document: return {...}`
CheckResult ==
    /\ pc = "check_result"
    /\ IF result.document
       THEN /\ pc' = "post_process"
            /\ UNCHANGED <<tmp_file, response>>
       ELSE Return(Failure("Docling conversion failed"), tmp_file)
    /\ UNCHANGED <<variant, pages, chunk_size, overlap, chunks, sections,
                   enriched, current_section, idx, accumulatorVars,
                   classifierVars, docxVars, attempts, method, result>>

\* The chunks of Docling's HybridChunker: text and page.
DoclingChunks ==
    {<<>>,
     <<[text |-> Introduction \o <<NL>> \o PlainSentence, page |-> NonePage]>>,
     <<[text |-> Introduction, page |-> 1],
       [text |-> <<SP>> \o PlainSentence \o <<NL>>, page |-> 2]>>}

\* The dict made of a Docling chunk without headings.
ChunkDict(dc) ==
    [text |-> CleanText(dc.text), page |-> dc.page, docling_section |-> NoneStr]

\* Steps 4 to 6 of the PDF branch: the sections of the document, the chunks
\* of the chunker (which can raise, so that the outer handler deletes the
\* file and returns the error), their conversion, and the call of
\* assign_sections_to_chunks.
PostProcess ==
    /\ pc = "post_process"
    /\ \E outcome \in {"raised", "ok"} :
          /\ attempts' = Append(attempts, Attempt("post_process", outcome))
          /\ IF outcome = "raised"
             THEN /\ Return(Failure("str(e)"), Unlinked)
                  /\ UNCHANGED <<chunks, sections>>
             ELSE /\ sections' \in {<<>>, <<Introduction>>}
                  /\ \E docling_chunks \in DoclingChunks :
                        chunks' = [i \in 1..Len(docling_chunks) |->
                                       ChunkDict(docling_chunks[i])]
                  /\ pc' = "assign_start"
                  /\ UNCHANGED <<tmp_file, response>>
    /\ UNCHANGED <<variant, pages, chunk_size, overlap, enriched,
                   current_section, idx, accumulatorVars, classifierVars,
                   docxVars, method, result>>

\* set(c['meta']['section'] for c in enriched_chunks)
UniqueSections(e) == {e[i].meta.section : i \in 1..Len(e)}

\* The quality check, which divides the number of chunks by the number of
\* unique sections: without a chunk the division raises ZeroDivisionError
\* and the outer handler deletes the file and returns the error; otherwise
\* `os.unlink(pdf_path)` and the success response.
QualityCheck ==
    /\ pc = "assign_done"
    /\ variant = "main_docling_arabic"
    /\ LastStage = "post_process"
    /\ IF Cardinality(UniqueSections(enriched)) = 0
       THEN Return(Failure("division by zero"), Unlinked)
       ELSE Return(Success("docling_with_arabic_ocr", Len(enriched)), Unlinked)
    /\ UNCHANGED <<variant, pages, chunk_size, overlap, chunks, sections,
                   enriched, current_section, idx, accumulatorVars,
                   classifierVars, docxVars, attempts, method, result>>

InitIngest ==
    /\ NotRunning
    /\ variant \in IngestVariants
    /\ pages = <<>>
    /\ chunk_size = DefaultChunkSize
    /\ overlap = DefaultOverlap
    /\ chunks = <<>>
    /\ sections = <<>>
    /\ enriched = <<>>
    /\ current_section = NoneStr
    /\ idx = 0
    /\ pc = "ingest"

NextIngest ==
    \/ MainIngest
    \/ ExtractWithOcr
    \/ MainReturn
    \/ SampleIngest
    \/ SampleOcr
    \/ SampleDocling
    \/ SamplePyPdf2
    \/ SampleReturn
    \/ DoclingIngest
    \/ OpenDocx
    \/ DocxReturn
    \/ ImportDocling
    \/ Convert
    \/ ProcessWithAlternativeMethod
    \/ AlternativeReturn
    \/ CheckResult
    \/ PostProcess
    \/ QualityCheck
    \/ ExtractSectionsPage
    \/ ExtractSectionsReturn
    \/ ExtractSectionsFromText
    \/ CreateChunks
    \/ ChunkTextPagesStep
    \/ ChunkTextPagesReturn
    \/ AssignSections
    \/ ProcessParagraph
    \/ AddRemainingText
    \/ AssignNoSections
    \/ AssignBegin
    \/ AssignChunk
    \/ AssignReturn

SpecIngest == InitIngest /\ [][NextIngest]_vars

\* ------------------------------------------- /ingest handlers: stated claims
\* The order of the extraction stages of the PDF branch.
StageOrder ==
    <<"primary", "minimal_max_num_pages", "minimal", "ultra_minimal",
      "alternative">>

Rank(stage) == CHOOSE i \in 1..Len(StageOrder) : StageOrder[i] = stage

IsExtraction(i) == \E k \in 1..Len(StageOrder) : StageOrder[k] = attempts[i].stage

Raised(i) == attempts[i].outcome \in {"raised", "TypeError"}

\* The stage that may follow attempt i: the next of the order, the call
\* without max_num_pages being made only after a TypeError.
Following(i) ==
    IF attempts[i].stage = "minimal_max_num_pages"
           /\ attempts[i].outcome # "TypeError"
    THEN "ultra_minimal"
    ELSE StageOrder[Rank(attempts[i].stage) + 1]

AlternativeErrors ==
    {"Alternative processing method not available",
     "Alternative processing failed",
     "Could not extract any text from PDF"}

InPdfBranch ==
    /\ variant = "main_docling_arabic"
    /\ attempts # <<>>
    /\ attempts[1].stage # "docx"

\* C21: in the PDF branch of main_docling_arabic.ingest the stages run in
\* the order primary, OCR-only with max_num_pages, OCR-only without it (only
\* after a TypeError), ultra-minimal, alternative; a stage is attempted only
\* if every earlier one raised; the first stage that succeeds supplies the
\* result; the alternative method's response is returned without section
\* extraction or chunking by Docling.
C21_FixedStageOrder ==
    InPdfBranch =>
        /\ attempts[1].stage = "primary"
        /\ \A i \in 1..Len(attempts) - 1 :
              IsExtraction(i + 1) =>
                  /\ IsExtraction(i)
                  /\ attempts[i + 1].stage = Following(i)
                  /\ \A j \in 1..i : Raised(j)
        /\ \A i \in 1..Len(attempts) :
              (IsExtraction(i) /\ attempts[i].outcome = "ok"
                   /\ attempts[i].stage # "alternative") =>
                  /\ result.stage = attempts[i].stage
                  /\ \A j \in 1..(i - 1) : Raised(j)
        /\ result.stage # "" =>
              \E i \in 1..Len(attempts) :
                  attempts[i] = Attempt(result.stage, "ok")
        /\ (\E i \in 1..Len(attempts) : attempts[i].stage = "alternative") =>
              /\ LastStage = "alternative"
              /\ result = NoResult
              /\ pc \notin {"check_result", "post_process"}
              /\ pc = "returned" =>
                    IF response.success
                    THEN response = Success("alternative_pdf_processing",
                                            Len(chunks))
                    ELSE response.error \in AlternativeErrors

C21_Witness ==
    /\ pc = "returned"
    /\ variant = "main_docling_arabic"
    /\ [i \in 1..Len(attempts) |-> attempts[i].stage] = StageOrder
    /\ attempts[2].outcome = "TypeError"
    /\ response.success
    /\ response.method = "alternative_pdf_processing"
    /\ response.total_chunks = 2

\* C22: whenever an /ingest handler has returned, the temporary file it
\* created for the upload has been deleted.
C22_TempFileDeleted ==
    pc = "returned" => tmp_file # "exists"

BackendOrder == <<"ocr", "docling", "pypdf2">>

BackendRank(stage) == CHOOSE i \in 1..Len(BackendOrder) : BackendOrder[i] = stage

\* C23: in sample_pdf.ingest the backends are tried in the order OCR,
\* Docling, PyPDF2, and every success response carries the method of the
\* backend that produced the returned text, which is the last one tried and
\* has succeeded.
C23_MethodNamesBackend ==
    variant = "sample_pdf" =>
        /\ \A i \in 1..Len(attempts) - 1 :
              BackendRank(attempts[i].stage) < BackendRank(attempts[i + 1].stage)
        /\ (pc = "returned" /\ response.success) =>
              /\ response.method \in {"ocr", "docling", "pypdf2"}
              /\ attempts[Len(attempts)] = Attempt(response.method, "ok")

\* C24: in main_docling_arabic.ingest, once the conversion has succeeded and
\* the chunker has produced its chunks, the handler returns success with
\* total_chunks equal to their number, zero included.
C24_SuccessWithChunkCount ==
    (variant = "main_docling_arabic" /\ pc = "returned"
        /\ attempts # <<>>
        /\ attempts[Len(attempts)] = Attempt("post_process", "ok")) =>
        /\ response.success
        /\ response.total_chunks = Len(chunks)

\* Paragraph i is neither skipped nor a heading.
IsBody(i) == ~Blank(paragraphs[i]) /\ ~IsHeadingParagraph(i)

\* The cleaned texts of the body paragraphs i..j, joined by spaces.
RECURSIVE JoinBodies(_, _)
JoinBodies(i, j) ==
    IF i > j THEN <<>>
    ELSE IF ~IsBody(i) THEN JoinBodies(i + 1, j)
    ELSE LET rest == JoinBodies(i + 1, j)
             cleaned == CleanText(Strip(paragraphs[i]))
         IN  IF rest = <<>> THEN cleaned ELSE cleaned \o <<SP>> \o rest

\* The cleaned texts of the heading paragraphs 1..n, in order.
RECURSIVE HeadingsUpTo(_)
HeadingsUpTo(n) ==
    IF n = 0 THEN <<>>
    ELSE IF ~Blank(paragraphs[n]) /\ IsHeadingParagraph(n)
    THEN Append(HeadingsUpTo(n - 1), CleanText(Strip(paragraphs[n])))
    ELSE HeadingsUpTo(n - 1)

\* The section occurs, as it is or without diacritics, in the first 500
\* characters of the text.
OccursInPrefix(section, text) ==
    LET prefix == SubSeq(text, 1, Min(500, Len(text)))
    IN  \/ Contains(section, prefix)
        \/ Contains(StripDiacritics(section), StripDiacritics(prefix))

\* The section carried forward to chunk c.
CarriedTo(c) == IF c = 1 THEN sections[1] ELSE enriched[c - 1].meta.section

\* C25: in _process_docx_file heading paragraphs go to sections and never
\* into a chunk's text, which is made of body paragraphs only; so a chunk is
\* assigned another section than the one carried forward only if that
\* section occurs in the first 500 characters of its body text, and the
\* carried section is sections[0] until some chunk matches.
C25_HeadingsOutsideChunkText ==
    (variant = "main_docling_arabic" /\ paragraphs # <<>>) =>
        /\ pc = "docx_loop" => sections = HeadingsUpTo(idx)
        /\ pc # "docx_loop" => sections = HeadingsUpTo(Len(paragraphs))
        /\ \A c \in 1..Len(chunks) :
              \E i \in 1..Len(paragraphs) : \E j \in i..Len(paragraphs) :
                  /\ IsBody(i)
                  /\ chunks[c].text = CleanText(JoinBodies(i, j))
        /\ (pc \in {"assign_loop", "assign_done"} /\ sections # <<>>) =>
              \A c \in 1..Len(enriched) :
                  /\ enriched[c].meta.section # CarriedTo(c) =>
                        OccursInPrefix(enriched[c].meta.section, chunks[c].text)
                  /\ (\A b \in 1..c : \A k \in 1..Len(sections) :
                          ~OccursInPrefix(sections[k], chunks[b].text)) =>
                        enriched[c].meta.section = sections[1]

\* A chunk behind the second heading that mentions it is assigned to it, and
\* a chunk behind the second heading that does not keeps the first heading.
C25_Witness ==
    /\ pc = "assign_done"
    /\ variant = "main_docling_arabic"
    /\ paragraphs = <<Introduction, Hello, LateMention(3)>>
    /\ sections = <<Introduction, Hello>>
    /\ Len(enriched) = 1
    /\ enriched[1].meta.section = Introduction

\* ------------------------------------------- assignment: marked-up texts
MaxText == 4

\* The texts of at most n characters made of a letter and a diacritic.
MarkedTexts(n) == UNION {[1..k -> {"a", FATHA}] : k \in 0..n}

\* Section lists: none, or a section of fewer than MaxText characters,
\* alone, before or behind the plain section "a".
MarkedSectionLists ==
    {<<>>} \cup
    UNION {{<<s>>, <<s, <<"a">>>>, <<<<"a">>, s>>} :
           s \in MarkedTexts(MaxText - 1) \ {<<>>, <<"a">>}}

\* A chunk of at most MaxText characters, followed by one without any of
\* the sections.
InitMarked ==
    /\ NotRunning
    /\ variant \in AssignVariants \ {"main"}
    /\ pages = <<>>
    /\ chunk_size = DefaultChunkSize
    /\ overlap = DefaultOverlap
    /\ \E t \in MarkedTexts(MaxText) :
          chunks = <<InputChunk(variant, t, 1), InputChunk(variant, <<"x">>, 1)>>
    /\ sections \in MarkedSectionLists
    /\ enriched = <<>>
    /\ current_section = NoneStr
    /\ idx = 0
    /\ pc = "assign_start"

SpecMarked == InitMarked /\ [][NextAssign]_vars

\* The test without its second disjunct.
NormalizedMatch(section, search_text) ==
    Contains(StripDiacritics(section), StripDiacritics(search_text))

\* The first section that passes that test.
RECURSIVE ScanNormalized(_, _)
ScanNormalized(secs, search_text) ==
    IF secs = <<>> THEN NoneStr
    ELSE IF NormalizedMatch(secs[1], search_text) THEN secs[1]
    ELSE ScanNormalized(Tail(secs), search_text)

\* C26: in the variants that test both forms, a section that is a substring
\* of the inspected prefix is, with the diacritics removed, a substring of
\* the prefix with the diacritics removed; so every chunk is assigned the
\* section the normalized test alone would give it.
C26_NormalizedSubsumesExact ==
    (variant \in AssignVariants \ {"main"}) =>
        /\ \A c \in 1..Len(chunks) : \A k \in 1..Len(sections) :
              LET search_text == SearchText(variant, chunks[c].text)
              IN  Contains(sections[k], search_text) =>
                      NormalizedMatch(sections[k], search_text)
        /\ (pc \in {"assign_loop", "assign_done"} /\ sections # <<>>) =>
              \A c \in 1..Len(enriched) :
                  LET found == ScanNormalized(sections,
                                   SearchText(variant, chunks[c].text))
                  IN  enriched[c].meta.section =
                          IF found # NoneStr THEN found ELSE CarriedTo(c)

\* A section with a diacritic found as it is in a chunk with another
\* diacritic before it.
C26_Witness ==
    /\ pc = "assign_done"
    /\ sections = <<<<"a", FATHA, "a">>>>
    /\ chunks[1].text = <<FATHA, "a", FATHA, "a">>
    /\ enriched[1].meta.section = <<"a", FATHA, "a">>

\* ------------------------------------------ chunker: coverage of the words
\* The words of the chunks cs read in order, each chunk but the first
\* without the (at most ov) leading words it shares with its predecessor.
RECURSIVE Unshared(_, _, _)
Unshared(cs, k, ov) ==
    IF k > Len(cs) THEN <<>>
    ELSE LET ws == Split(cs[k].text)
             shared == IF k = 1 THEN 0 ELSE Min(ov, Len(ws))
         IN  SubSeq(ws, shared + 1, Len(ws)) \o Unshared(cs, k + 1, ov)

\* Word position p of the page lies in chunk c of the page.
Covers(c, p, words) ==
    \E o \in RunOffsets(Split(c.text), words) :
        o < p /\ p <= o + Len(Split(c.text))

\* C27: with 0 <= overlap < size the sliding-window chunker loses no word:
\* every word position of a page lies in a chunk of that page, and the
\* chunks of a page read in order, without the words each shares with its
\* predecessor, give the page's word sequence.
C27_NoWordLost ==
    (pc = "chunk_done" /\ ValidConfig) =>
        \A i \in 1..Len(pages) :
            LET words == Split(pages[i].text)
                mine == ChunksOfPage(pages[i].page)
            IN  /\ \A p \in 1..Len(words) :
                      \E k \in 1..Len(mine) : Covers(mine[k], p, words)
                /\ Unshared(mine, 1, overlap) = words

C27_Witness ==
    /\ pc = "chunk_done"
    /\ chunk_size = 2 /\ overlap = 1
    /\ \E i \in 1..Len(pages) :
          LET mine == ChunksOfPage(pages[i].page)
          IN  /\ Split(pages[i].text) = <<<<"a">>, <<"b">>, <<"c">>>>
              /\ Len(mine) = 3
              /\ Unshared(mine, 1, overlap) = <<<<"a">>, <<"b">>, <<"c">>>>

\* The words ws are the last words of the words of.
IsTail(ws, of) ==
    /\ Len(ws) <= Len(of)
    /\ SubSeq(of, Len(of) - Len(ws) + 1, Len(of)) = ws

\* A window that reaches the end of the page is followed by another one
\* whenever the next start lies inside the page, made of last words of it.
WindowBehindTheEnd(words, mine) ==
    LET n == Len(words)
        step == chunk_size - overlap
    IN  \A k \in 0..n :
            (k * step + chunk_size >= n /\ (k + 1) * step < n) =>
                /\ Len(mine) >= k + 2
                /\ IsTail(Split(mine[k + 2].text), Split(mine[k + 1].text))

\* C28 as stated: with 0 < overlap < size a window that reaches the end of
\* the page is followed by a window made only of its last words whenever the
\* next start lies inside the page; a page of exactly size words yields two
\* chunks, the second being the last overlap words of the first.
C28_SizeWordsTwoChunks ==
    (pc = "chunk_done" /\ 0 < overlap /\ overlap < chunk_size) =>
        \A i \in 1..Len(pages) :
            LET words == Split(pages[i].text)
                mine == ChunksOfPage(pages[i].page)
            IN  /\ WindowBehindTheEnd(words, mine)
                /\ Len(words) = chunk_size =>
                      /\ Len(mine) = 2
                      /\ Split(mine[2].text) =
                             SubSeq(words, chunk_size - overlap + 1, chunk_size)

\* C28 amended: a page of exactly size words yields
\* ceil(size / (size - overlap)) chunks, which is two when twice the overlap
\* is at most the size and more otherwise, the second being the last overlap
\* words of the first.
C28_SizeWordsRedundantChunks ==
    (pc = "chunk_done" /\ 0 < overlap /\ overlap < chunk_size) =>
        \A i \in 1..Len(pages) :
            LET words == Split(pages[i].text)
                mine == ChunksOfPage(pages[i].page)
            IN  /\ WindowBehindTheEnd(words, mine)
                /\ Len(words) = chunk_size =>
                      /\ Len(mine) = CeilDiv(chunk_size, chunk_size - overlap)
                      /\ Len(mine) = 2 <=> 2 * overlap <= chunk_size
                      /\ Len(mine) > 2 <=> 2 * overlap > chunk_size
                      /\ Split(mine[2].text) =
                             SubSeq(words, chunk_size - overlap + 1, chunk_size)

C28_Witness ==
    /\ pc = "chunk_done"
    /\ chunk_size = 3 /\ overlap = 1
    /\ \E i \in 1..Len(pages) :
          LET mine == ChunksOfPage(pages[i].page)
          IN  /\ Split(pages[i].text) = <<<<"a">>, <<"b">>, <<"c">>>>
              /\ Len(mine) = 2
              /\ mine[1].text = <<"a", SP, "b", SP, "c">>
              /\ mine[2].text = <<"c">>

\* ------------------------------- chunk_text_with_sections: size of chunks
\* The chunk appended by `if chunk_words:` behind the loop, if any.
Flushed == pc = "sections_done" /\ chunk_words # <<>>

\* C29: in chunk_text_with_sections with 0 <= overlap < chunk_size the
\* accumulator holds fewer than chunk_size words between items, every chunk
\* emitted inside the loop has exactly chunk_size words, the chunk flushed
\* behind the loop has between 1 and chunk_size - 1 words, and no chunk has
\* more than chunk_size words.
C29_AccumulatorBelowSize ==
    (variant = "main_simple_custom_sections" /\ ValidConfig) =>
        /\ Len(chunk_words) < chunk_size
        /\ \A j \in 1..Len(chunks) :
              IF Flushed /\ j = Len(chunks)
              THEN /\ ChunkWords(j) = chunk_words
                   /\ 1 <= Len(ChunkWords(j))
                   /\ Len(ChunkWords(j)) <= chunk_size - 1
              ELSE Len(ChunkWords(j)) = chunk_size
        /\ \A j \in 1..Len(chunks) : Len(ChunkWords(j)) <= chunk_size

\* Three items of one and two words in windows of two words with one word
\* of overlap: full chunks from the loop and a flushed chunk of one word.
C29_Witness ==
    /\ pc = "sections_done"
    /\ variant = "main_simple_custom_sections"
    /\ chunk_size = 2 /\ overlap = 1
    /\ Len(pages) = 3
    /\ Len(AllWords(pages)) = 4
    /\ Len(chunks) = 4
    /\ Len(ChunkWords(3)) = 2
    /\ Len(ChunkWords(4)) = 1

====
